---- MODULE Spec2Model ----
(***************************************************************************)
(* HardStress stress-session engine: the controller thread                 *)
(* (controller_thread_func), the worker threads (worker_main), the metrics *)
(* sampler (cpu_sampler_thread_func) and the GTK main thread's start/stop  *)
(* handlers, as an interleaving of their atomic steps.                     *)
(***************************************************************************)
EXTENDS Integers, Sequences, FiniteSets, TLC

(* ---------- bounds of the model ---------- *)
MaxThreads == 2
MaxCpus == 2
MaxIters == 1
MaxSamples == 1
MaxRuns == 2
MaxDuration == 1
MaxOvershoot == 1
MaxStops == 2
MaxRingLen == 4
MaxWrites == 10
MaxExtraIters == 1
MaxTemp == 1

(* ---------- program constants ---------- *)
HISTORY_SAMPLES == 240
CPU_HISTORY_SAMPLES == 60
CPU_SAMPLE_INTERVAL_MS == 1000
PollIntervalMs == 200
DEFAULT_MEM_MIB == 256
WORKER_OK == 0
WORKER_ALLOC_FAIL == 1

(* A pointer is NULL, points to a live allocation, or dangles (FREED). *)
PtrStates == {"NULL", "LIVE", "FREED"}

Tids == 0 .. (MaxThreads - 1)
Cpus == 0 .. (MaxCpus - 1)

Min(a, b) == IF a < b THEN a ELSE b

VARIABLES
    \* GTK main thread
    btn_start, btn_stop, controller_thread, idle_queue, runs, stopped_scheduled,
    \* session configuration
    threads, duration_sec, mem_mib_per_thread, kernel_ptr_en,
    \* monotonic clock, in milliseconds
    now,
    \* session state
    running, errors, total_iters, start_time, cpu_count,
    \* buffers
    cpu_usage, cpu_history, cpu_history_rows, cpu_history_len, cpu_history_pos,
    cpu_history_filled, prev_cpu_samples, curr_cpu_samples,
    thread_history, thread_history_rows, thread_history_data, history_pos, history_len,
    workers, worker_threads,
    \* controller thread: position and locals
    cpc, sampler_started, workers_started, thread_history_allocated, ci, end_time,
    \* worker_t fields and worker threads
    w_running, w_iters, w_status, w_buf, w_idx, wpc, w_joined,
    \* sampler thread
    spc, s_joined, samples,
    \* set when a thread dereferences or frees memory it must not touch
    fault,
    \* history of the current run: the workers whose run flag the controller
    \* has cleared, and the startup step that failed (if any)
    flags_cleared, failure,
    \* system-history ring (allocated by main, written by the sampler)
    system_history_pos, system_history_filled,
    \* owner of system_history_mutex while a draw holds it across steps
    system_history_mutex,
    \* presentation layer: position of the draw handler that is running, and
    \* whether a draw has read memory that is not allocated
    dpc, draw_fault,
    \* stop clicks that found the run flag already cleared
    stops_ignored,
    \* the largest number of engine locks the latest locking step held at once
    peak_held,
    \* a ring of arbitrary capacity, for the ring arithmetic on its own
    ring_kind, ring_len, ring_pos, ring_filled, ring_writes,
    \* one call of shuffle32 and the index array built from it (utils.c, core.c)
    shuf,
    \* two splitmix64 generators side by side (utils.c)
    gen,
    \* one core's tick counters and the usage computed from them (metrics.c)
    usg,
    \* the system-history ring with its contents, and the graph's copy of it
    \* (metrics.c, ui.c)
    sysring,
    \* which sampling backends answer on this machine, the cached temperature,
    \* and whether sample_cpu_linux has stored a usage yet
    backend, temp_celsius, cpu_sampled,
    \* the two system-history buffers (main.c) and the pending timeout of the
    \* close request (ui.c)
    temp_history, avg_cpu_history, close_timer

uiVars == <<btn_start, btn_stop, controller_thread, idle_queue, runs, stopped_scheduled>>
cfgVars == <<threads, duration_sec, mem_mib_per_thread, kernel_ptr_en>>
sessVars == <<running, errors, total_iters, start_time>>
cpuBufVars == <<cpu_usage, cpu_history, cpu_history_rows, cpu_history_len, cpu_history_pos,
                cpu_history_filled, prev_cpu_samples, curr_cpu_samples>>
histVars == <<thread_history, thread_history_rows, thread_history_data, history_pos, history_len>>
arrVars == <<workers, worker_threads>>
ctlVars == <<cpc, sampler_started, workers_started, thread_history_allocated, ci, end_time>>
wFieldVars == <<w_running, w_iters, w_status, w_buf, w_idx>>
wThreadVars == <<wpc, w_joined>>
smpVars == <<spc, s_joined, samples>>
runVars == <<flags_cleared, failure>>
sysVars == <<system_history_pos, system_history_filled>>
presVars == <<system_history_mutex, dpc, draw_fault, stops_ignored>>
ringVars == <<ring_kind, ring_len, ring_pos, ring_filled, ring_writes>>
winVars == <<temp_history, avg_cpu_history, close_timer>>
pureVars == <<shuf, gen, usg, sysring>>
sensVars == <<backend, temp_celsius, cpu_sampled>>

\* What the engine's start/stop handlers, controller and workers never write.
extVars == <<sysVars, presVars, ringVars, winVars, pureVars, sensVars, peak_held>>

vars == <<uiVars, cfgVars, now, sessVars, cpu_count, cpuBufVars, histVars, arrVars, ctlVars,
          wFieldVars, wThreadVars, smpVars, fault, runVars, extVars>>

NoFailure == [kind |-> "none", index |-> 0]
Failed(k, i) == [kind |-> k, index |-> i]

(* ---------- heap helpers ---------- *)

\* free(p): free(NULL) is a no-op, a live block becomes freed.
Free_Leak(p) == p

Free(p) == IF p = "LIVE" THEN "FREED" ELSE p

\* free(p) of an already freed block is a double free.
BadFree(p) == p = "FREED"

\* Dereferencing p is defined only for a live block.
BadDeref(p) == p # "LIVE"

\* A zero-initialised unsigned row, kept sparsely: absent slots hold 0.
EmptyRow == [p \in {} |-> 0]

RowRead(r, p) == IF p \in DOMAIN r THEN r[p] ELSE 0

RowWrite(r, p, v) ==
    IF v = 0
    THEN [q \in (DOMAIN r) \ {p} |-> r[q]]
    ELSE [q \in (DOMAIN r) \cup {p} |-> IF q = p THEN v ELSE r[q]]

(* ---------- ring arithmetic ---------- *)

\* Variant of RingAdvance that forgets to wrap.
RingAdvance_NoWrap(pos, len) == pos + 1

\* pos = (pos + 1) % len
RingAdvance(pos, len) == (pos + 1) % len

\* Variant of RingFill that counts every write.
RingFill_Uncapped(filled, len) == filled + 1

\* if (filled < len) filled++
RingFill(filled, len) == IF filled < len THEN filled + 1 ELSE filled

\* Capacity of the system-history ring.
SystemHistoryLen == CPU_HISTORY_SAMPLES

(* ---------- locks ---------- *)

Mutexes == {"cpu_mutex", "history_mutex", "temp_mutex", "system_history_mutex"}

Lock(m) == <<"lock", m>>
Unlock(m) == <<"unlock", m>>

Max(a, b) == IF a > b THEN a ELSE b

\* The largest number of locks held at once while a thread that holds the
\* set `held` runs through the lock and unlock calls of `trace` in order.
RECURSIVE PeakFrom(_, _, _)
PeakFrom(trace, held, peak) ==
    IF trace = <<>>
    THEN peak
    ELSE LET e == Head(trace)
             h == IF e[1] = "lock" THEN held \cup {e[2]} ELSE held \ {e[2]}
         IN  PeakFrom(Tail(trace), h, Max(peak, Cardinality(h)))

PeakHeld(trace) == PeakFrom(trace, {}, 0)

\* sample_cpu_linux, update_temp_cache (through sample_temp_linux), then the
\* per-core ring section of the sampler loop.
SamplerCpuLocks ==
    <<Lock("cpu_mutex"), Unlock("cpu_mutex"),
      Lock("temp_mutex"), Unlock("temp_mutex"),
      Lock("cpu_mutex"), Unlock("cpu_mutex")>>

\* Variant of SamplerSystemLocks that sums the core usages before releasing
\* temp_mutex.
SamplerSystemLocks_Nested ==
    <<Lock("temp_mutex"), Lock("cpu_mutex"), Unlock("cpu_mutex"), Unlock("temp_mutex")>>

\* The system-history section of the sampler loop.
SamplerSystemLocks ==
    <<Lock("temp_mutex"), Unlock("temp_mutex"), Lock("cpu_mutex"), Unlock("cpu_mutex")>>

SamplerThreadHistoryLocks == <<Lock("history_mutex"), Unlock("history_mutex")>>

WorkerPublishLocks == <<Lock("history_mutex"), Unlock("history_mutex")>>

ControllerFreeLocks == <<Lock("cpu_mutex"), Unlock("cpu_mutex")>>

DrawItersLocks == <<Lock("history_mutex"), Unlock("history_mutex")>>
\* ui.c 772-790: on_draw_system_graph.
DrawSystemLocks == <<Lock("system_history_mutex"), Unlock("system_history_mutex")>>

(* ---------- initial state: main() has built the window ---------- *)
EngineInit ==
    /\ btn_start = TRUE
    /\ btn_stop = FALSE
    /\ controller_thread = 0
    /\ idle_queue = <<>>
    /\ runs = 0
    /\ stopped_scheduled = 0
    /\ threads = 0
    /\ duration_sec = 0
    /\ mem_mib_per_thread = 0
    /\ kernel_ptr_en = FALSE
    /\ now = 0
    /\ running = 0
    /\ errors = 0
    /\ total_iters = 0
    /\ start_time = 0
    /\ cpu_count = 0
    /\ cpu_usage = "NULL"
    /\ cpu_history = "NULL"
    /\ cpu_history_rows = [c \in Cpus |-> "NULL"]
    /\ cpu_history_len = 0
    /\ cpu_history_pos = 0
    /\ cpu_history_filled = 0
    /\ prev_cpu_samples = "NULL"
    /\ curr_cpu_samples = "NULL"
    /\ thread_history = "NULL"
    /\ thread_history_rows = [t \in Tids |-> "NULL"]
    /\ thread_history_data = [t \in Tids |-> EmptyRow]
    /\ history_pos = 0
    /\ history_len = HISTORY_SAMPLES
    /\ workers = "NULL"
    /\ worker_threads = "NULL"
    /\ cpc = "idle"
    /\ sampler_started = 0
    /\ workers_started = 0
    /\ thread_history_allocated = 0
    /\ ci = 0
    /\ end_time = 0
    /\ w_running = [t \in Tids |-> 0]
    /\ w_iters = [t \in Tids |-> 0]
    /\ w_status = [t \in Tids |-> WORKER_OK]
    /\ w_buf = [t \in Tids |-> "NULL"]
    /\ w_idx = [t \in Tids |-> "NULL"]
    /\ wpc = [t \in Tids |-> "none"]
    /\ w_joined = [t \in Tids |-> FALSE]
    /\ spc = "none"
    /\ s_joined = FALSE
    /\ samples = 0
    /\ fault = FALSE
    /\ flags_cleared = {}
    /\ failure = NoFailure
    /\ system_history_pos = 0
    /\ system_history_filled = 0
    /\ temp_history = "LIVE"
    /\ avg_cpu_history = "LIVE"
    /\ close_timer = FALSE
    /\ system_history_mutex = "none"
    /\ dpc = "idle"
    /\ draw_fault = FALSE
    /\ stops_ignored = 0
    /\ peak_held = 0

\* No ring is under study.
RingIdle ==
    /\ ring_kind = "none"
    /\ ring_len = 0
    /\ ring_pos = 0
    /\ ring_filled = 0
    /\ ring_writes = 0

ShuffleIdle == shuf = [phase |-> "idle"]
GeneratorIdle == gen = [phase |-> "idle"]
UsageIdle == usg = [phase |-> "idle"]
SystemRingIdle == sysring = [phase |-> "idle"]

\* hardstress.h 43: the temperature that stands for "no reading".
TEMP_UNAVAILABLE == -274

\* main.c 59: the cache starts at the sentinel; nothing has been sampled.
SensorStart == temp_celsius = TEMP_UNAVAILABLE /\ cpu_sampled = FALSE

\* A machine on which neither `sensors` nor /proc/stat answers.
SensorIdle == SensorStart /\ backend = [temp |-> FALSE, usage |-> FALSE]

Init == EngineInit /\ RingIdle /\ ShuffleIdle /\ GeneratorIdle /\ UsageIdle /\ SensorIdle /\ SystemRingIdle

(* ---------- GTK main thread ---------- *)

\* The GTK main thread runs one handler at a time: a click or an idle callback
\* is dispatched only when no draw handler is running (dpc = "idle").

\* Variant of on_btn_start_clicked that is reached while the Start button is
\* insensitive.
on_btn_start_clicked_Insensitive ==
    /\ dpc = "idle"
    /\ running = 0
    /\ runs < MaxRuns
    /\ \E n \in 1 .. MaxThreads, d \in 0 .. MaxDuration, p \in BOOLEAN :
          /\ threads' = n
          /\ duration_sec' = d
          /\ kernel_ptr_en' = p
    /\ mem_mib_per_thread' = DEFAULT_MEM_MIB
    /\ btn_start' = FALSE
    /\ idle_queue' = Append(idle_queue, "started")
    /\ controller_thread' = 1
    /\ cpc' = "init"
    /\ runs' = runs + 1
    /\ stopped_scheduled' = 0
    /\ now' = 0
    /\ UNCHANGED <<runVars, btn_stop, sessVars, cpu_count, cpuBufVars, histVars, arrVars,
                   sampler_started, workers_started, thread_history_allocated, ci, end_time,
                   wFieldVars, wThreadVars, smpVars, fault>>
    /\ UNCHANGED extVars

\* on_btn_start_clicked: the click reaches the handler only while the button
\* is sensitive; the handler returns early while a run is active.  The
\* monotonic clock has no fixed origin and only differences are ever used, so
\* the model re-bases it at every start.
on_btn_start_clicked ==
    /\ dpc = "idle"
    /\ btn_start = TRUE
    /\ running = 0
    /\ runs < MaxRuns
    /\ \E n \in 1 .. MaxThreads, d \in 0 .. MaxDuration, p \in BOOLEAN :
          /\ threads' = n
          /\ duration_sec' = d
          /\ kernel_ptr_en' = p
    /\ mem_mib_per_thread' = DEFAULT_MEM_MIB
    /\ btn_start' = FALSE
    /\ idle_queue' = Append(idle_queue, "started")
    /\ controller_thread' = 1
    /\ cpc' = "init"
    /\ runs' = runs + 1
    /\ stopped_scheduled' = 0
    /\ now' = 0
    /\ UNCHANGED <<runVars, btn_stop, sessVars, cpu_count, cpuBufVars, histVars, arrVars,
                   sampler_started, workers_started, thread_history_allocated, ci, end_time,
                   wFieldVars, wThreadVars, smpVars, fault>>
    /\ UNCHANGED extVars

\* gui_update_started, run from the idle queue.
gui_update_started ==
    /\ dpc = "idle"
    /\ idle_queue # <<>>
    /\ Head(idle_queue) = "started"
    /\ idle_queue' = Tail(idle_queue)
    /\ btn_stop' = TRUE
    /\ UNCHANGED <<runVars, btn_start, controller_thread, runs, stopped_scheduled, cfgVars, now,
                   sessVars, cpu_count, cpuBufVars, histVars, arrVars, ctlVars, wFieldVars,
                   wThreadVars, smpVars, fault>>
    /\ UNCHANGED extVars

\* on_btn_stop_clicked: returns early unless a run is active.
on_btn_stop_clicked ==
    /\ dpc = "idle"
    /\ btn_stop = TRUE
    /\ running = 1
    /\ running' = 0
    /\ btn_stop' = FALSE
    /\ UNCHANGED <<runVars, btn_start, controller_thread, idle_queue, runs, stopped_scheduled, cfgVars,
                   now, errors, total_iters, start_time, cpu_count, cpuBufVars, histVars,
                   arrVars, ctlVars, wFieldVars, wThreadVars, smpVars, fault>>
    /\ UNCHANGED extVars

\* gui_update_stopped, run from the idle queue: joins the controller thread
\* (the join returns once controller_thread_func has returned).  With the
\* controller gone no thread of the run exists any more.
gui_update_stopped ==
    /\ dpc = "idle"
    /\ idle_queue # <<>>
    /\ Head(idle_queue) = "stopped"
    /\ controller_thread # 0 => cpc = "done"
    /\ idle_queue' = Tail(idle_queue)
    /\ controller_thread' = 0
    /\ cpc' = IF controller_thread # 0 THEN "idle" ELSE cpc
    /\ btn_start' = TRUE
    /\ btn_stop' = FALSE
    /\ wpc' = [t \in Tids |-> "none"]
    /\ w_joined' = [t \in Tids |-> FALSE]
    /\ spc' = "none"
    /\ s_joined' = FALSE
    /\ samples' = 0
    /\ flags_cleared' = {}
    /\ failure' = NoFailure
    /\ UNCHANGED <<runs, stopped_scheduled, cfgVars, now, sessVars, cpu_count, cpuBufVars,
                   histVars, arrVars, sampler_started, workers_started,
                   thread_history_allocated, ci, end_time, wFieldVars, fault>>
    /\ UNCHANGED extVars

(* ---------- controller thread: controller_thread_func ---------- *)

\* Everything outside the controller's own locals, the session state and the
\* buffers it manages.
ctlFrame == <<uiVars, cfgVars, cpu_count, wThreadVars, smpVars>>

\* detect_cpu_count(): the number of online processors of the machine.
detect_cpu_count == MaxCpus

\* Lines 33-42: publish the run flag, reset the counters, record the start time.
C_Init ==
    /\ cpc = "init"
    /\ cpu_count' = detect_cpu_count
    /\ running' = 1
    /\ errors' = 0
    /\ total_iters' = 0
    /\ start_time' = now
    /\ sampler_started' = 0
    /\ workers_started' = 0
    /\ thread_history_allocated' = 0
    /\ cpc' = "alloc_cpu_usage"
    /\ UNCHANGED <<runVars, uiVars, cfgVars, wThreadVars, smpVars, now, cpuBufVars, histVars, arrVars, ci, end_time, wFieldVars, fault>>
    /\ UNCHANGED extVars

\* Variant of C_AllocCpuUsage that returns from the thread function on a
\* failed allocation instead of jumping to the cleanup label.
C_AllocCpuUsage_EarlyReturn ==
    /\ cpc = "alloc_cpu_usage"
    /\ \E ok \in BOOLEAN :
          /\ cpu_usage' = IF ok THEN "LIVE" ELSE "NULL"
          /\ cpc' = IF ok THEN "alloc_cpu_history" ELSE "done"
          /\ failure' = IF ok THEN failure ELSE Failed("alloc", 0)
    /\ UNCHANGED <<flags_cleared, ctlFrame, now, sessVars, cpu_history, cpu_history_rows, cpu_history_len,
                   cpu_history_pos, cpu_history_filled, prev_cpu_samples, curr_cpu_samples,
                   histVars, arrVars, sampler_started, workers_started,
                   thread_history_allocated, ci, end_time, wFieldVars, fault>>
    /\ UNCHANGED extVars

\* Lines 43-47.
C_AllocCpuUsage ==
    /\ cpc = "alloc_cpu_usage"
    /\ \E ok \in BOOLEAN :
          /\ cpu_usage' = IF ok THEN "LIVE" ELSE "NULL"
          /\ cpc' = IF ok THEN "alloc_cpu_history" ELSE "cleanup"
          /\ failure' = IF ok THEN failure ELSE Failed("alloc", 0)
    /\ UNCHANGED <<flags_cleared, ctlFrame, now, sessVars, cpu_history, cpu_history_rows, cpu_history_len,
                   cpu_history_pos, cpu_history_filled, prev_cpu_samples, curr_cpu_samples,
                   histVars, arrVars, sampler_started, workers_started,
                   thread_history_allocated, ci, end_time, wFieldVars, fault>>
    /\ UNCHANGED extVars

\* Lines 49-56: calloc zeroes the row pointers.
C_AllocCpuHistory ==
    /\ cpc = "alloc_cpu_history"
    /\ cpu_history_len' = CPU_HISTORY_SAMPLES
    /\ cpu_history_pos' = -1
    /\ cpu_history_filled' = 0
    /\ \E ok \in BOOLEAN :
          /\ cpu_history' = IF ok THEN "LIVE" ELSE "NULL"
          /\ cpu_history_rows' = IF ok THEN [c \in Cpus |-> "NULL"] ELSE cpu_history_rows
          /\ cpc' = IF ok THEN "alloc_cpu_history_rows" ELSE "cleanup"
          /\ failure' = IF ok THEN failure ELSE Failed("alloc", 0)
    /\ ci' = 0
    /\ UNCHANGED <<flags_cleared, ctlFrame, now, sessVars, cpu_usage, prev_cpu_samples, curr_cpu_samples,
                   histVars, arrVars, sampler_started, workers_started,
                   thread_history_allocated, end_time, wFieldVars, fault>>
    /\ UNCHANGED extVars

\* Lines 57-63: one step per loop iteration, the last one leaves the loop.
C_AllocCpuHistoryRow ==
    /\ cpc = "alloc_cpu_history_rows"
    /\ \/ /\ ci < cpu_count
          /\ \E ok \in BOOLEAN :
                /\ cpu_history_rows' = [cpu_history_rows EXCEPT ![ci] = IF ok THEN "LIVE" ELSE "NULL"]
                /\ cpc' = IF ok THEN cpc ELSE "cleanup"
                /\ ci' = IF ok THEN ci + 1 ELSE ci
                /\ failure' = IF ok THEN failure ELSE Failed("alloc", 0)
       \/ /\ ci >= cpu_count
          /\ cpc' = "alloc_cpu_samples"
          /\ UNCHANGED <<cpu_history_rows, ci, failure>>
    /\ UNCHANGED <<flags_cleared, ctlFrame, now, sessVars, cpu_usage, cpu_history, cpu_history_len,
                   cpu_history_pos, cpu_history_filled, prev_cpu_samples, curr_cpu_samples,
                   histVars, arrVars, sampler_started, workers_started,
                   thread_history_allocated, end_time, wFieldVars, fault>>
    /\ UNCHANGED extVars

\* Lines 65-78: both sample buffers are requested before either is tested.
C_AllocCpuSamples ==
    /\ cpc = "alloc_cpu_samples"
    /\ \E okp \in BOOLEAN, okc \in BOOLEAN :
          /\ prev_cpu_samples' = IF okp THEN "LIVE" ELSE "NULL"
          /\ curr_cpu_samples' = IF okc THEN "LIVE" ELSE "NULL"
          /\ cpc' = IF okp /\ okc THEN "alloc_thread_history" ELSE "cleanup"
          /\ failure' = IF okp /\ okc THEN failure ELSE Failed("alloc", 0)
    /\ UNCHANGED <<flags_cleared, ctlFrame, now, sessVars, cpu_usage, cpu_history, cpu_history_rows,
                   cpu_history_len, cpu_history_pos, cpu_history_filled, histVars, arrVars,
                   sampler_started, workers_started, thread_history_allocated, ci, end_time,
                   wFieldVars, fault>>
    /\ UNCHANGED extVars

\* Lines 80-86: the per-thread ring spans the duration, or HISTORY_SAMPLES.
HistorySpan(d) ==
    LET span == IF d > 0 THEN d ELSE HISTORY_SAMPLES
    IN  IF span <= 0 THEN HISTORY_SAMPLES ELSE span

\* Variant of C_AllocThreadHistory that goes on to the row allocations when
\* the allocation of the row array failed.
C_AllocThreadHistory_Continue ==
    /\ cpc = "alloc_thread_history"
    /\ history_len' = HistorySpan(duration_sec)
    /\ history_pos' = 0
    /\ \E ok \in BOOLEAN :
          /\ thread_history' = IF ok THEN "LIVE" ELSE "NULL"
          /\ thread_history_rows' = IF ok THEN [t \in Tids |-> "NULL"] ELSE thread_history_rows
          /\ cpc' = "alloc_thread_history_rows"
          /\ failure' = IF ok THEN failure ELSE Failed("alloc", 0)
    /\ ci' = 0
    /\ UNCHANGED <<flags_cleared, ctlFrame, now, sessVars, cpuBufVars, thread_history_data, arrVars,
                   sampler_started, workers_started, thread_history_allocated, end_time,
                   wFieldVars, fault>>
    /\ UNCHANGED extVars

\* Lines 87-93.
C_AllocThreadHistory ==
    /\ cpc = "alloc_thread_history"
    /\ history_len' = HistorySpan(duration_sec)
    /\ history_pos' = 0
    /\ \E ok \in BOOLEAN :
          /\ thread_history' = IF ok THEN "LIVE" ELSE "NULL"
          /\ thread_history_rows' = IF ok THEN [t \in Tids |-> "NULL"] ELSE thread_history_rows
          /\ cpc' = IF ok THEN "alloc_thread_history_rows" ELSE "cleanup"
          /\ failure' = IF ok THEN failure ELSE Failed("alloc", 0)
    /\ ci' = 0
    /\ UNCHANGED <<flags_cleared, ctlFrame, now, sessVars, cpuBufVars, thread_history_data, arrVars,
                   sampler_started, workers_started, thread_history_allocated, end_time,
                   wFieldVars, fault>>
    /\ UNCHANGED extVars

\* Lines 94-101.
C_AllocThreadHistoryRow ==
    /\ cpc = "alloc_thread_history_rows"
    /\ \/ /\ ci < threads
          /\ \E ok \in BOOLEAN :
                /\ thread_history_rows' =
                      [thread_history_rows EXCEPT ![ci] = IF ok THEN "LIVE" ELSE "NULL"]
                /\ thread_history_data' =
                      IF ok THEN [thread_history_data EXCEPT ![ci] = EmptyRow]
                      ELSE thread_history_data
                /\ thread_history_allocated' =
                      IF ok THEN thread_history_allocated + 1 ELSE thread_history_allocated
                /\ cpc' = IF ok THEN cpc ELSE "cleanup"
                /\ ci' = IF ok THEN ci + 1 ELSE ci
                /\ failure' = IF ok THEN failure ELSE Failed("alloc", 0)
       \/ /\ ci >= threads
          /\ cpc' = "alloc_workers"
          /\ UNCHANGED <<thread_history_rows, thread_history_data, thread_history_allocated,
                         ci, failure>>
    /\ UNCHANGED <<flags_cleared, ctlFrame, now, sessVars, cpuBufVars, thread_history, history_pos,
                   history_len, arrVars, sampler_started, workers_started, end_time,
                   wFieldVars, fault>>
    /\ UNCHANGED extVars

\* Variant of AllocWorkersOk that tests the Worker array only.
AllocWorkersOk_FirstOnly(w, t) == w # "NULL"

\* Line 105: if (!app->workers || !app->worker_threads) goto cleanup.
AllocWorkersOk(w, t) == w # "NULL" /\ t # "NULL"

\* Lines 103-113: both arrays are requested before either is tested; the
\* worker_t entries are then initialised (calloc plus the compound literal
\* zero every field, status is WORKER_OK).
C_AllocWorkers ==
    /\ cpc = "alloc_workers"
    /\ \E okw \in BOOLEAN, okt \in BOOLEAN :
          /\ workers' = IF okw THEN "LIVE" ELSE "NULL"
          /\ worker_threads' = IF okt THEN "LIVE" ELSE "NULL"
          /\ cpc' = IF AllocWorkersOk(workers', worker_threads')
                    THEN "create_sampler" ELSE "cleanup"
          /\ failure' = IF okw /\ okt THEN failure ELSE Failed("alloc", 0)
          /\ IF okw
             THEN /\ w_running' = [t \in Tids |-> 0]
                  /\ w_iters' = [t \in Tids |-> 0]
                  /\ w_status' = [t \in Tids |-> WORKER_OK]
                  /\ w_buf' = [t \in Tids |-> "NULL"]
                  /\ w_idx' = [t \in Tids |-> "NULL"]
             ELSE UNCHANGED wFieldVars
    /\ UNCHANGED <<flags_cleared, ctlFrame, now, sessVars, cpuBufVars, histVars, sampler_started,
                   workers_started, thread_history_allocated, ci, end_time, fault>>
    /\ UNCHANGED extVars

\* Lines 115-119.
C_CreateSampler ==
    /\ cpc = "create_sampler"
    /\ \E ok \in BOOLEAN :
          /\ spc' = IF ok THEN "check" ELSE spc
          /\ sampler_started' = IF ok THEN 1 ELSE sampler_started
          /\ cpc' = IF ok THEN "create_workers" ELSE "cleanup"
          /\ failure' = IF ok THEN failure ELSE Failed("sampler", 0)
    /\ ci' = 0
    /\ UNCHANGED <<flags_cleared, uiVars, cfgVars, cpu_count, wThreadVars, s_joined, samples, now, sessVars,
                   cpuBufVars, histVars, arrVars, workers_started, thread_history_allocated,
                   end_time, wFieldVars, fault>>
    /\ UNCHANGED extVars

\* Variant of EndTime that reads the duration in minutes.
EndTime_Minutes(d, st) == IF d > 0 THEN st + d * 60 * 1000 ELSE 0

\* Line 138.
EndTime(d, st) == IF d > 0 THEN st + d * 1000 ELSE 0

\* Variant of CreateWorkerNext that stays in the creation loop on a failure.
CreateWorkerNext_Retry(ok) == "create_workers"

\* Lines 122-126: a failed thread_create leaves the loop for the cleanup label.
CreateWorkerNext(ok) == IF ok THEN "create_workers" ELSE "cleanup"

\* Lines 121-138: one step per thread_create; a failure counts an error and
\* abandons the loop; after the last worker the deadline is computed.
C_CreateWorker ==
    /\ cpc = "create_workers"
    /\ \/ /\ ci < threads
          /\ \E ok \in BOOLEAN :
                /\ wpc' = IF ok THEN [wpc EXCEPT ![ci] = "start"] ELSE wpc
                /\ workers_started' = IF ok THEN workers_started + 1 ELSE workers_started
                /\ errors' = IF ok THEN errors ELSE errors + 1
                /\ cpc' = CreateWorkerNext(ok)
                /\ ci' = IF ok THEN ci + 1 ELSE ci
                /\ failure' = IF ok THEN failure ELSE Failed("worker", ci)
          /\ UNCHANGED end_time
       \/ /\ ci >= threads
          /\ end_time' = EndTime(duration_sec, start_time)
          /\ cpc' = "poll"
          /\ UNCHANGED <<wpc, workers_started, errors, ci, failure>>
    /\ UNCHANGED <<flags_cleared, uiVars, cfgVars, cpu_count, w_joined, smpVars, now, running, total_iters,
                   start_time, cpuBufVars, histVars, arrVars, sampler_started,
                   thread_history_allocated, wFieldVars, fault>>
    /\ UNCHANGED extVars

\* Variant of DeadlineReached without the test for a deadline of zero.
DeadlineReached_NoSkip(et, t) == t >= et

\* Line 140: the deadline test of the poll loop.
DeadlineReached(et, t) == et > 0 /\ t >= et

\* Lines 139-144: the loop test and the deadline test.
C_Poll ==
    /\ cpc = "poll"
    /\ \/ /\ running = 0
          /\ cpc' = "cleanup"
          /\ UNCHANGED running
       \/ /\ running = 1
          /\ DeadlineReached(end_time, now)
          /\ running' = 0
          /\ cpc' = "cleanup"
       \/ /\ running = 1
          /\ ~DeadlineReached(end_time, now)
          /\ cpc' = "poll_sleep"
          /\ UNCHANGED running
    /\ UNCHANGED <<runVars, ctlFrame, now, errors, total_iters, start_time, cpuBufVars, histVars,
                   arrVars, sampler_started, workers_started, thread_history_allocated, ci,
                   end_time, wFieldVars, fault>>
    /\ UNCHANGED extVars

\* The clock is read only against a deadline (line 140 short-circuits when
\* there is none); it is followed until well past the deadline, and for one
\* poll interval when there is no deadline.
ClockHorizon ==
    IF end_time > 0
    THEN end_time + 2 * PollIntervalMs + CPU_SAMPLE_INTERVAL_MS
    ELSE start_time + PollIntervalMs

\* Line 145: nanosleep returns after the poll interval, possibly late.
C_PollSleep ==
    /\ cpc = "poll_sleep"
    /\ \E late \in 0 .. MaxOvershoot :
          now' = Min(now + PollIntervalMs + late * (PollIntervalMs \div 2),
                     ClockHorizon)
    /\ cpc' = "poll"
    /\ UNCHANGED <<runVars, ctlFrame, sessVars, cpuBufVars, histVars, arrVars, sampler_started,
                   workers_started, thread_history_allocated, ci, end_time, wFieldVars, fault>>
    /\ UNCHANGED extVars

(* ---------- controller thread: the cleanup label ---------- *)

\* Variant of WorkersGuard that tests the handle array's absence, so that the
\* flag-clearing loop is skipped whenever workers were started.
WorkersGuard_Skipped == worker_threads = "NULL"

\* Line 150: if (app->workers)
WorkersGuard == workers # "NULL"

\* Line 153: if (app->worker_threads)
WorkerThreadsGuard == worker_threads # "NULL"

\* Line 164: if (app->thread_history)
ThreadHistoryGuard == thread_history # "NULL"

\* Variant of CpuHistoryGuard that walks the rows without testing the array.
CpuHistoryGuard_Unchecked == TRUE

\* Line 173: if (app->cpu_history)
CpuHistoryGuard == cpu_history # "NULL"

\* Variant of SamplerGuard that never joins the sampler.
SamplerGuard_Never == FALSE

\* Line 159: if (sampler_started)
SamplerGuard == sampler_started = 1

\* Line 149.
C_Cleanup ==
    /\ cpc = "cleanup"
    /\ running' = 0
    /\ ci' = 0
    /\ cpc' = "clear_flags"
    /\ UNCHANGED <<runVars, ctlFrame, now, errors, total_iters, start_time, cpuBufVars, histVars,
                   arrVars, sampler_started, workers_started, thread_history_allocated,
                   end_time, wFieldVars, fault>>
    /\ UNCHANGED extVars

\* Lines 150-152: one step per store to a worker's own run flag.
C_ClearFlag ==
    /\ cpc = "clear_flags"
    /\ \/ /\ WorkersGuard
          /\ ci < workers_started
          /\ w_running' = [w_running EXCEPT ![ci] = 0]
          /\ flags_cleared' = flags_cleared \cup {ci}
          /\ fault' = (fault \/ BadDeref(workers))
          /\ ci' = ci + 1
          /\ UNCHANGED cpc
       \/ /\ ~(WorkersGuard /\ ci < workers_started)
          /\ ci' = 0
          /\ cpc' = "join_workers"
          /\ UNCHANGED <<w_running, fault, flags_cleared>>
    /\ UNCHANGED <<failure, ctlFrame, now, sessVars, cpuBufVars, histVars, arrVars, sampler_started,
                   workers_started, thread_history_allocated, end_time, w_iters, w_status,
                   w_buf, w_idx>>
    /\ UNCHANGED extVars

\* Lines 153-157: thread_join returns once worker ci has returned.
C_JoinWorker ==
    /\ cpc = "join_workers"
    /\ \/ /\ WorkerThreadsGuard
          /\ ci < workers_started
          /\ wpc[ci] = "done"
          /\ w_joined' = [w_joined EXCEPT ![ci] = TRUE]
          /\ fault' = (fault \/ BadDeref(worker_threads))
          /\ ci' = ci + 1
          /\ UNCHANGED cpc
       \/ /\ ~(WorkerThreadsGuard /\ ci < workers_started)
          /\ cpc' = "join_sampler"
          /\ UNCHANGED <<w_joined, fault, ci>>
    /\ UNCHANGED <<runVars, uiVars, cfgVars, cpu_count, wpc, smpVars, now, sessVars, cpuBufVars,
                   histVars, arrVars, sampler_started, workers_started,
                   thread_history_allocated, end_time, wFieldVars>>
    /\ UNCHANGED extVars

\* Lines 159-161.
C_JoinSampler ==
    /\ cpc = "join_sampler"
    /\ \/ /\ SamplerGuard
          /\ spc = "done"
          /\ s_joined' = TRUE
       \/ /\ ~SamplerGuard
          /\ UNCHANGED s_joined
    /\ ci' = 0
    /\ cpc' = "free_thread_history_rows"
    /\ UNCHANGED <<runVars, uiVars, cfgVars, cpu_count, wThreadVars, spc, samples, now, sessVars,
                   cpuBufVars, histVars, arrVars, sampler_started, workers_started,
                   thread_history_allocated, end_time, wFieldVars, fault>>
    /\ UNCHANGED extVars

\* Lines 164-165: one step per freed row; a freed row has no contents.
C_FreeThreadHistoryRow ==
    /\ cpc = "free_thread_history_rows"
    /\ \/ /\ ThreadHistoryGuard
          /\ ci < thread_history_allocated
          /\ thread_history_rows' = [thread_history_rows EXCEPT ![ci] = Free(@)]
          /\ thread_history_data' = [thread_history_data EXCEPT ![ci] = EmptyRow]
          /\ fault' = (fault \/ BadDeref(thread_history) \/ BadFree(thread_history_rows[ci]))
          /\ ci' = ci + 1
          /\ UNCHANGED cpc
       \/ /\ ThreadHistoryGuard
          /\ ci >= thread_history_allocated
          /\ cpc' = "free_thread_history"
          /\ UNCHANGED <<thread_history_rows, thread_history_data, fault, ci>>
       \/ /\ ~ThreadHistoryGuard
          /\ cpc' = "free_workers"
          /\ UNCHANGED <<thread_history_rows, thread_history_data, fault, ci>>
    /\ UNCHANGED <<runVars, ctlFrame, now, sessVars, cpuBufVars, thread_history,
                   history_pos, history_len, arrVars, sampler_started, workers_started,
                   thread_history_allocated, end_time, wFieldVars>>
    /\ UNCHANGED extVars

\* Line 166.
C_FreeThreadHistory ==
    /\ cpc = "free_thread_history"
    /\ thread_history' = Free(thread_history)
    /\ fault' = (fault \/ BadFree(thread_history))
    /\ cpc' = "null_thread_history"
    /\ UNCHANGED <<runVars, ctlFrame, now, sessVars, cpuBufVars, thread_history_rows,
                   thread_history_data, history_pos, history_len, arrVars, sampler_started,
                   workers_started, thread_history_allocated, ci, end_time, wFieldVars>>
    /\ UNCHANGED extVars

\* Line 167.
C_NullThreadHistory ==
    /\ cpc = "null_thread_history"
    /\ thread_history' = "NULL"
    /\ cpc' = "free_workers"
    /\ UNCHANGED <<runVars, ctlFrame, now, sessVars, cpuBufVars, thread_history_rows,
                   thread_history_data, history_pos, history_len, arrVars, sampler_started,
                   workers_started, thread_history_allocated, ci, end_time, wFieldVars, fault>>
    /\ UNCHANGED extVars

\* Line 169, free(app->workers); the freed worker_t entries have no contents.
C_FreeWorkers ==
    /\ cpc = "free_workers"
    /\ workers' = Free(workers)
    /\ fault' = (fault \/ BadFree(workers))
    /\ w_running' = [t \in Tids |-> 0]
    /\ w_iters' = [t \in Tids |-> 0]
    /\ w_status' = [t \in Tids |-> WORKER_OK]
    /\ w_buf' = [t \in Tids |-> "NULL"]
    /\ w_idx' = [t \in Tids |-> "NULL"]
    /\ cpc' = "null_workers"
    /\ UNCHANGED <<runVars, ctlFrame, now, sessVars, cpuBufVars, histVars, worker_threads,
                   sampler_started, workers_started, thread_history_allocated, ci, end_time>>
    /\ UNCHANGED extVars

\* Lines 169-170: app->workers = NULL, then the handle array is freed and reset.
C_NullWorkers ==
    /\ cpc = "null_workers"
    /\ workers' = "NULL"
    /\ worker_threads' = "NULL"
    /\ fault' = (fault \/ BadFree(worker_threads))
    /\ cpc' = "free_cpu"
    /\ UNCHANGED <<runVars, ctlFrame, now, sessVars, cpuBufVars, histVars, sampler_started,
                   workers_started, thread_history_allocated, ci, end_time, wFieldVars>>
    /\ UNCHANGED extVars

\* Lines 172-184, one critical section of cpu_mutex.
C_FreeCpu ==
    /\ cpc = "free_cpu"
    /\ IF CpuHistoryGuard
       THEN /\ cpu_history_rows' =
                  [c \in Cpus |-> IF c < cpu_count THEN Free(cpu_history_rows[c])
                                  ELSE cpu_history_rows[c]]
            /\ cpu_history' = "NULL"
            /\ fault' = (fault \/ BadDeref(cpu_history) \/ BadFree(cpu_usage)
                               \/ \E c \in Cpus : c < cpu_count /\ BadFree(cpu_history_rows[c]))
       ELSE /\ UNCHANGED <<cpu_history_rows, cpu_history>>
            /\ fault' = (fault \/ BadFree(cpu_usage))
    /\ cpu_history_len' = 0
    /\ cpu_history_filled' = 0
    /\ cpu_history_pos' = -1
    /\ cpu_usage' = "NULL"
    /\ cpc' = "free_samples"
    /\ UNCHANGED <<runVars, ctlFrame, now, sessVars, prev_cpu_samples, curr_cpu_samples, histVars,
                   arrVars, sampler_started, workers_started, thread_history_allocated, ci,
                   end_time, wFieldVars>>
    /\ peak_held' = PeakHeld(ControllerFreeLocks)
    /\ UNCHANGED <<sysVars, presVars, ringVars, winVars, pureVars, sensVars>>

\* Lines 186-187.
C_FreeSamples ==
    /\ cpc = "free_samples"
    /\ prev_cpu_samples' = "NULL"
    /\ curr_cpu_samples' = "NULL"
    /\ fault' = (fault \/ BadFree(prev_cpu_samples) \/ BadFree(curr_cpu_samples))
    /\ cpc' = "notify"
    /\ UNCHANGED <<runVars, ctlFrame, now, sessVars, cpu_usage, cpu_history, cpu_history_rows,
                   cpu_history_len, cpu_history_pos, cpu_history_filled, histVars, arrVars,
                   sampler_started, workers_started, thread_history_allocated, ci, end_time,
                   wFieldVars>>
    /\ UNCHANGED extVars

\* Lines 191-192: g_idle_add(gui_update_stopped), then the thread returns and
\* its locals are gone.
C_Notify ==
    /\ cpc = "notify"
    /\ idle_queue' = Append(idle_queue, "stopped")
    /\ stopped_scheduled' = stopped_scheduled + 1
    /\ cpc' = "done"
    /\ sampler_started' = 0
    /\ workers_started' = 0
    /\ thread_history_allocated' = 0
    /\ ci' = 0
    /\ end_time' = 0
    /\ UNCHANGED <<runVars, btn_start, btn_stop, controller_thread, runs, cfgVars, cpu_count,
                   wThreadVars, smpVars, now, sessVars, cpuBufVars, histVars, arrVars,
                   wFieldVars, fault>>
    /\ UNCHANGED extVars

(* ---------- worker threads: worker_main ---------- *)

\* Everything a worker step leaves alone apart from its own fields, its
\* position, the counters and the history rows.
wFrame == <<uiVars, cfgVars, now, cpu_count, cpuBufVars, arrVars, ctlVars, w_joined, smpVars>>

\* Lines 209-263 up to the first shared access after the status store: the
\* buffer allocation, its initialisation (private to the worker) and the
\* allocation of the index array when pointer chasing is enabled.
W_Start(i) ==
    /\ wpc[i] = "start"
    /\ w_status' = [w_status EXCEPT ![i] = WORKER_OK]
    /\ fault' = (fault \/ BadDeref(workers))
    /\ \E okb, oki \in BOOLEAN :
          LET buf == IF mem_mib_per_thread > 0
                     THEN (IF okb THEN "LIVE" ELSE "NULL")
                     ELSE w_buf[i]
              failb == mem_mib_per_thread > 0 /\ ~okb
              wantIdx == kernel_ptr_en /\ buf # "NULL"
          IN  /\ (mem_mib_per_thread > 0 \/ okb)
              /\ ((~failb /\ wantIdx) \/ oki)
              /\ w_buf' = [w_buf EXCEPT ![i] = buf]
              /\ w_idx' = IF ~failb /\ wantIdx
                          THEN [w_idx EXCEPT ![i] = IF oki THEN "LIVE" ELSE "NULL"]
                          ELSE w_idx
              /\ wpc' = [wpc EXCEPT ![i] =
                            IF failb THEN "fail_buf"
                            ELSE IF wantIdx /\ ~oki THEN "fail_idx"
                            ELSE "set_running"]
    /\ UNCHANGED <<runVars, wFrame, sessVars, histVars, w_running, w_iters>>
    /\ UNCHANGED extVars

\* Variant of W_FailCount that leaves the error counter alone.
W_FailCount_Silent(i) ==
    /\ wpc[i] \in {"fail_buf", "fail_idx"}
    /\ wpc' = [wpc EXCEPT ![i] = IF wpc[i] = "fail_buf" THEN "fail_buf_status"
                                 ELSE "fail_idx_status"]
    /\ UNCHANGED <<runVars, wFrame, sessVars, histVars, wFieldVars, fault>>
    /\ UNCHANGED extVars

\* Variant of W_FailCount in which the failing worker also stops the session.
W_FailCount_Abort(i) ==
    /\ wpc[i] \in {"fail_buf", "fail_idx"}
    /\ errors' = errors + 1
    /\ running' = 0
    /\ wpc' = [wpc EXCEPT ![i] = IF wpc[i] = "fail_buf" THEN "fail_buf_status"
                                 ELSE "fail_idx_status"]
    /\ UNCHANGED <<runVars, wFrame, total_iters, start_time, histVars, wFieldVars, fault>>
    /\ UNCHANGED extVars

\* Lines 214 and 254: atomic_fetch_add(&app->errors, 1).
W_FailCount(i) ==
    /\ wpc[i] \in {"fail_buf", "fail_idx"}
    /\ errors' = errors + 1
    /\ wpc' = [wpc EXCEPT ![i] = IF wpc[i] = "fail_buf" THEN "fail_buf_status"
                                 ELSE "fail_idx_status"]
    /\ UNCHANGED <<runVars, wFrame, running, total_iters, start_time, histVars, wFieldVars, fault>>
    /\ UNCHANGED extVars

\* Variant of W_FailStatus that returns without releasing the buffer.
W_FailStatus_KeepBuf(i) ==
    /\ wpc[i] \in {"fail_buf_status", "fail_idx_status"}
    /\ w_status' = [w_status EXCEPT ![i] = WORKER_ALLOC_FAIL]
    /\ fault' = (fault \/ BadDeref(workers))
    /\ wpc' = [wpc EXCEPT ![i] = "done"]
    /\ UNCHANGED <<runVars, wFrame, sessVars, histVars, w_running, w_iters, w_buf, w_idx>>
    /\ UNCHANGED extVars

\* Variant of W_FailStatus that falls through to the run loop instead of
\* returning.
W_FailStatus_NoReturn(i) ==
    /\ wpc[i] \in {"fail_buf_status", "fail_idx_status"}
    /\ w_status' = [w_status EXCEPT ![i] = WORKER_ALLOC_FAIL]
    /\ w_buf' = IF wpc[i] = "fail_idx_status" THEN [w_buf EXCEPT ![i] = Free(@)] ELSE w_buf
    /\ fault' = (fault \/ BadDeref(workers)
                       \/ (wpc[i] = "fail_idx_status" /\ BadFree(w_buf[i])))
    /\ wpc' = [wpc EXCEPT ![i] = "set_running"]
    /\ UNCHANGED <<runVars, wFrame, sessVars, histVars, w_running, w_iters, w_idx>>
    /\ UNCHANGED extVars

\* Lines 215-216 and 255-257: the status store, the release of the buffer on
\* the index path, and the return.
W_FailStatus(i) ==
    /\ wpc[i] \in {"fail_buf_status", "fail_idx_status"}
    /\ w_status' = [w_status EXCEPT ![i] = WORKER_ALLOC_FAIL]
    /\ w_buf' = IF wpc[i] = "fail_idx_status" THEN [w_buf EXCEPT ![i] = Free(@)] ELSE w_buf
    /\ fault' = (fault \/ BadDeref(workers)
                       \/ (wpc[i] = "fail_idx_status" /\ BadFree(w_buf[i])))
    /\ wpc' = [wpc EXCEPT ![i] = "done"]
    /\ UNCHANGED <<runVars, wFrame, sessVars, histVars, w_running, w_iters, w_idx>>
    /\ UNCHANGED extVars

\* Line 265.
W_SetRunning(i) ==
    /\ wpc[i] = "set_running"
    /\ w_running' = [w_running EXCEPT ![i] = 1]
    /\ fault' = (fault \/ BadDeref(workers))
    /\ wpc' = [wpc EXCEPT ![i] = "loop"]
    /\ UNCHANGED <<runVars, wFrame, sessVars, histVars, w_iters, w_status, w_buf, w_idx>>
    /\ UNCHANGED extVars

\* Variant of W_KeepGoing that tests the worker's own flag only.
W_KeepGoing_OwnFlag(i) == w_running[i] # 0

\* Variant of W_KeepGoing that goes on while either run flag is set.
W_KeepGoing_EitherFlag(i) == w_running[i] # 0 \/ running # 0

\* Line 268: the loop test on both run flags.
W_KeepGoing(i) == w_running[i] # 0 /\ running # 0

\* Line 268, and lines 286-288 when the test fails: the release of the
\* worker's own buffers and the return.
W_LoopCheck(i) ==
    /\ wpc[i] = "loop"
    /\ \/ /\ W_KeepGoing(i)
          /\ w_iters[i] < MaxIters
          /\ wpc' = [wpc EXCEPT ![i] = "iterate"]
          /\ fault' = (fault \/ BadDeref(workers))
          /\ UNCHANGED <<w_idx, w_buf>>
       \/ /\ ~W_KeepGoing(i)
          /\ w_idx' = [w_idx EXCEPT ![i] = Free(@)]
          /\ w_buf' = [w_buf EXCEPT ![i] = Free(@)]
          /\ fault' = (fault \/ BadDeref(workers) \/ BadFree(w_idx[i]) \/ BadFree(w_buf[i]))
          /\ wpc' = [wpc EXCEPT ![i] = "done"]
    /\ UNCHANGED <<runVars, wFrame, sessVars, histVars, w_running, w_iters, w_status>>
    /\ UNCHANGED extVars

\* Lines 276-277: atomic_fetch_add(&counter, 1).
FetchAdd_Sub(n) == n - 1
FetchAdd_Two(n) == n + 2

FetchAdd(n) == n + 1

\* Lines 269-276: one sweep of the kernels over the private buffer, then the
\* worker's own iteration counter.
W_Iterate(i) ==
    /\ wpc[i] = "iterate"
    /\ w_iters' = [w_iters EXCEPT ![i] = FetchAdd(@)]
    /\ fault' = (fault \/ BadDeref(workers) \/ w_buf[i] = "FREED" \/ w_idx[i] = "FREED")
    /\ wpc' = [wpc EXCEPT ![i] = "inc_total"]
    /\ UNCHANGED <<runVars, wFrame, sessVars, histVars, w_running, w_status, w_buf, w_idx>>
    /\ UNCHANGED extVars

\* Line 277.
W_IncTotal(i) ==
    /\ wpc[i] = "inc_total"
    /\ total_iters' = FetchAdd(total_iters)
    /\ wpc' = [wpc EXCEPT ![i] = "publish"]
    /\ UNCHANGED <<runVars, wFrame, running, errors, start_time, histVars, wFieldVars, fault>>
    /\ UNCHANGED extVars

\* Variant of PublishSlot that writes one slot ahead of the shared position.
PublishSlot_Next(pos, len) == (pos + 1) % len

\* Line 281: the slot a worker writes is the shared position, read inside the
\* same critical section.
PublishSlot(pos, len) == pos

\* Line 281: the row a worker writes is the one of its own tid.
PublishRow_Shared(i) == 0

PublishRow(i) == i

\* Lines 280-282, one critical section of history_mutex.
W_Publish(i) ==
    /\ wpc[i] = "publish"
    /\ IF thread_history # "NULL"
       THEN /\ thread_history_data' =
                  [thread_history_data EXCEPT
                      ![PublishRow(i)] =
                          RowWrite(@, PublishSlot(history_pos, history_len), w_iters[i])]
            /\ fault' = (fault \/ BadDeref(workers) \/ BadDeref(thread_history)
                               \/ BadDeref(thread_history_rows[i])
                               \/ history_pos \notin 0 .. (history_len - 1))
       ELSE UNCHANGED <<thread_history_data, fault>>
    /\ wpc' = [wpc EXCEPT ![i] = "loop"]
    /\ UNCHANGED <<runVars, wFrame, sessVars, thread_history, thread_history_rows, history_pos,
                   history_len, wFieldVars>>
    /\ peak_held' = PeakHeld(WorkerPublishLocks)
    /\ UNCHANGED <<sysVars, presVars, ringVars, winVars, pureVars, sensVars>>

(* ---------- sampler thread: cpu_sampler_thread_func ---------- *)

sFrame == <<uiVars, cfgVars, now, sessVars, cpu_count, arrVars, ctlVars, wFieldVars,
            wThreadVars, s_joined>>

\* What the temperature sensors can read, in degrees.
Temps == 1 .. MaxTemp

\* metrics.c 266-271 and 149-153 (sample_temp_linux, update_temp_cache): the
\* first reading when `sensors` answers, else the fallback, which is
\* TEMP_UNAVAILABLE when nothing could be read.
ReadTemp_Zero(ok, t) == IF ok THEN t ELSE 0

ReadTemp(ok, t) == IF ok THEN t ELSE TEMP_UNAVAILABLE

\* metrics.c 241-253 (sample_cpu_linux): usages are stored only when there
\* are cores, both sample buffers exist and /proc/stat could be read.
CpuSampleStored ==
    /\ backend.usage
    /\ cpu_count > 0
    /\ prev_cpu_samples # "NULL"
    /\ curr_cpu_samples # "NULL"

\* The locks of lines 45-98, in the order the sampler takes them.
SamplerLocks == SamplerCpuLocks \o SamplerSystemLocks

\* Line 43 (and the nanosleep of lines 113-114 that precedes every test but
\* the first), then lines 45-98: the reading of the CPU counters into the
\* sampler's own arrays, one critical section of cpu_mutex for the per-core
\* ring, and the system-history ring.  The position and the fill count of the
\* system-history ring are written with no lock held; its temperature slot is
\* written under temp_mutex and the core usages are summed under cpu_mutex.
\* No other thread of the engine touches either ring while the sampler lives.
S_Check ==
    /\ spc = "check"
    /\ \/ /\ running # 0
          /\ samples < MaxSamples
          /\ spc' = "hist"
          /\ samples' = samples + 1
          /\ IF cpu_history # "NULL" /\ cpu_history_len > 0 /\ cpu_count > 0
             THEN /\ cpu_history_pos' = RingAdvance(cpu_history_pos, cpu_history_len)
                  /\ cpu_history_filled' = RingFill(cpu_history_filled, cpu_history_len)
             ELSE UNCHANGED <<cpu_history_pos, cpu_history_filled>>
          /\ IF SystemHistoryLen > 0
             THEN /\ system_history_pos' = RingAdvance(system_history_pos, SystemHistoryLen)
                  /\ system_history_filled' = RingFill(system_history_filled, SystemHistoryLen)
             ELSE UNCHANGED sysVars
          /\ fault' = (fault
                \/ (/\ cpu_history # "NULL" /\ cpu_history_len > 0 /\ cpu_count > 0
                    /\ \/ BadDeref(cpu_history)
                       \/ (cpu_usage # "NULL" /\ BadDeref(cpu_usage))
                       \/ \E c \in Cpus : c < cpu_count /\ BadDeref(cpu_history_rows[c]))
                \/ (SystemHistoryLen > 0 /\ cpu_count > 0 /\ BadDeref(cpu_usage)))
          /\ peak_held' = PeakHeld(SamplerLocks)
          /\ cpu_sampled' = (cpu_sampled \/ CpuSampleStored)
          /\ \E t \in Temps : temp_celsius' = ReadTemp(backend.temp, t)
       \/ /\ running = 0
          /\ spc' = "done"
          /\ UNCHANGED <<samples, cpu_history_pos, cpu_history_filled, sysVars, fault, peak_held,
                         temp_celsius, cpu_sampled>>
    /\ UNCHANGED <<runVars, sFrame, cpu_usage, cpu_history, cpu_history_rows, cpu_history_len,
                   prev_cpu_samples, curr_cpu_samples, histVars>>
    /\ UNCHANGED <<presVars, ringVars, winVars, pureVars, backend>>

\* Variant of ZeroNewSlot that leaves the slot as it was.
ZeroNewSlot_Keep(r, p) == r

\* Line 107: the slot at the new position is set to 0.
ZeroNewSlot(r, p) == RowWrite(r, p, 0)

\* Lines 101-110, one critical section of history_mutex.
S_ThreadHistory ==
    /\ spc = "hist"
    /\ history_pos' = RingAdvance(history_pos, history_len)
    /\ IF thread_history # "NULL"
       THEN /\ thread_history_data' =
                  [t \in Tids |-> IF t < threads
                                  THEN ZeroNewSlot(thread_history_data[t], history_pos')
                                  ELSE thread_history_data[t]]
            /\ fault' = (fault \/ BadDeref(thread_history)
                               \/ \E t \in Tids : t < threads /\ BadDeref(thread_history_rows[t]))
       ELSE UNCHANGED <<thread_history_data, fault>>
    /\ spc' = "check"
    /\ UNCHANGED <<runVars, sFrame, samples, cpuBufVars, thread_history, thread_history_rows, history_len>>
    /\ peak_held' = PeakHeld(SamplerThreadHistoryLocks)
    /\ UNCHANGED <<sysVars, presVars, ringVars, winVars, pureVars, sensVars>>

(* ---------- the system ---------- *)

Controller ==
    \/ C_Init \/ C_AllocCpuUsage \/ C_AllocCpuHistory \/ C_AllocCpuHistoryRow
    \/ C_AllocCpuSamples \/ C_AllocThreadHistory \/ C_AllocThreadHistoryRow
    \/ C_AllocWorkers \/ C_CreateSampler \/ C_CreateWorker \/ C_Poll \/ C_PollSleep
    \/ C_Cleanup \/ C_ClearFlag \/ C_JoinWorker \/ C_JoinSampler
    \/ C_FreeThreadHistoryRow \/ C_FreeThreadHistory \/ C_NullThreadHistory
    \/ C_FreeWorkers \/ C_NullWorkers \/ C_FreeCpu \/ C_FreeSamples \/ C_Notify

Worker(i) ==
    \/ W_Start(i) \/ W_FailCount(i) \/ W_FailStatus(i) \/ W_SetRunning(i)
    \/ W_LoopCheck(i) \/ W_Iterate(i) \/ W_IncTotal(i) \/ W_Publish(i)

Sampler == S_Check \/ S_ThreadHistory

MainThread ==
    \/ on_btn_start_clicked \/ gui_update_started \/ on_btn_stop_clicked
    \/ gui_update_stopped

Next == Controller \/ (\E i \in Tids : Worker(i)) \/ Sampler \/ MainThread

Spec == Init /\ [][Next]_vars

Fairness ==
    /\ WF_vars(Controller)
    /\ \A i \in Tids : WF_vars(Worker(i))
    /\ WF_vars(Sampler)

\* The start click that opens the first run of a session.
FirstStart == on_btn_start_clicked /\ runs = 0

\* The first run of a session on its own.
FirstRunNext ==
    \/ Controller \/ (\E i \in Tids : Worker(i)) \/ Sampler
    \/ FirstStart \/ gui_update_started \/ on_btn_stop_clicked \/ gui_update_stopped

\* Every thread that can take a step eventually takes one (preemptive OS
\* threads); termination is followed over the first run.
FairSpec == Init /\ [][FirstRunNext]_vars /\ Fairness

(* ====================== properties ====================== *)

Started(t) == wpc[t] # "none"
SamplerStarted == spc # "none"

AllStartedJoined ==
    /\ \A t \in Tids : Started(t) => w_joined[t]
    /\ SamplerStarted => s_joined

Released(p, q) == p = "LIVE" /\ q # "LIVE"

\* This step frees a History Store buffer or the Worker array.
FreesSessionBuffer ==
    \/ Released(thread_history, thread_history')
    \/ \E t \in Tids : Released(thread_history_rows[t], thread_history_rows'[t])
    \/ Released(cpu_history, cpu_history')
    \/ \E c \in Cpus : Released(cpu_history_rows[c], cpu_history_rows'[c])
    \/ Released(cpu_usage, cpu_usage')
    \/ Released(workers, workers')
    \/ Released(worker_threads, worker_threads')

\* Every session buffer of a run whose allocations all succeeded is in place.
BuffersIntact ==
    /\ thread_history = "LIVE"
    /\ \A t \in Tids : t < threads => thread_history_rows[t] = "LIVE"
    /\ cpu_history = "LIVE"
    /\ \A c \in Cpus : c < cpu_count => cpu_history_rows[c] = "LIVE"
    /\ cpu_usage = "LIVE"
    /\ workers = "LIVE"
    /\ worker_threads = "LIVE"

\* No session buffer is left: every pointer is NULL again and no row is live.
BuffersReleased ==
    /\ thread_history = "NULL"
    /\ \A t \in Tids : thread_history_rows[t] # "LIVE"
    /\ cpu_history = "NULL"
    /\ \A c \in Cpus : cpu_history_rows[c] # "LIVE"
    /\ cpu_usage = "NULL"
    /\ prev_cpu_samples = "NULL"
    /\ curr_cpu_samples = "NULL"
    /\ workers = "NULL"
    /\ worker_threads = "NULL"

ClearStep(i) == i \notin flags_cleared /\ i \in flags_cleared'
JoinStep(i) == ~w_joined[i] /\ w_joined'[i]
SamplerJoinStep == ~s_joined /\ s_joined'

\* C1: on every path into cleanup, a step that frees a History Store buffer
\* (per-thread rows, per-core rows, cpu_usage) or the Worker array is taken
\* only when every started worker thread and the sampler have been joined.
C1_FreeOnlyAfterJoin == [][FreesSessionBuffer => AllStartedJoined]_vars

\* C1 witness: the deadline path has joined both workers and the sampler and
\* has freed the per-thread history.
C1_Witness ==
    /\ thread_history = "FREED"
    /\ w_joined[0] /\ w_joined[1] /\ s_joined
    /\ failure = NoFailure
    /\ btn_stop

\* C2: cleanup clears the run flag of each started worker, then joins the
\* workers in index order, then joins the sampler, and only then frees the
\* History Store and the Worker array.
C2_CleanupOrder ==
    [][ /\ \A i \in Tids : ClearStep(i) =>
              /\ Started(i) /\ w_running'[i] = 0
              /\ \A j \in Tids : j < i => j \in flags_cleared
              /\ \A t \in Tids : ~w_joined[t]
              /\ ~s_joined
              /\ BuffersIntact
        /\ \A i \in Tids : JoinStep(i) =>
              /\ \A t \in Tids : Started(t) => t \in flags_cleared
              /\ \A j \in Tids : j < i => w_joined[j]
              /\ ~s_joined
              /\ BuffersIntact
        /\ SamplerJoinStep =>
              /\ \A t \in Tids : Started(t) => w_joined[t]
              /\ BuffersIntact
        /\ FreesSessionBuffer =>
              /\ AllStartedJoined
              /\ \A t \in Tids : Started(t) => t \in flags_cleared
      ]_vars

\* C2 witness: two workers cleared and joined, the sampler joined, the Worker
\* array freed.
C2_Witness ==
    /\ flags_cleared = {0, 1}
    /\ w_joined[0] /\ w_joined[1] /\ s_joined
    /\ workers = "FREED"

\* C3: after an allocation failure at any allocation step of startup the
\* controller returns with every started thread joined and every buffer
\* released (all pointers NULL again), and it never touches a buffer that
\* was not allocated.
C3_AllocFailureRollsBack ==
    failure.kind = "alloc" =>
        /\ ~fault
        /\ cpc = "done" => (BuffersReleased /\ AllStartedJoined)

\* C3 witness: the controller has returned after an allocation failure that
\* came after the first per-thread row had been allocated.
C3_Witness ==
    /\ failure.kind = "alloc"
    /\ cpc = "done"
    /\ thread_history_rows[0] = "FREED"

\* C4: when an allocation of the History Store or of the Worker array fails,
\* no sampler thread and no worker thread is created in that run.
C4_NoThreadAfterAllocFailure ==
    failure.kind = "alloc" => (~SamplerStarted /\ \A t \in Tids : ~Started(t))

\* C4 witness: the Worker array allocation failed after the whole History
\* Store had been allocated.
C4_Witness ==
    /\ failure.kind = "alloc"
    /\ cpc = "cleanup"
    /\ thread_history_allocated = threads
    /\ thread_history = "LIVE"

SomeBufferReleased == ~BuffersIntact

\* C5: when creating worker thread i fails, no worker of index >= i exists,
\* and buffers are released only after the run flag is cleared, workers
\* 0..i-1 have had their flags cleared and been joined, and the sampler has
\* been joined; all of that has happened when the controller returns.
C5_WorkerStartFailure ==
    failure.kind = "worker" =>
        /\ \A t \in Tids : t >= failure.index => ~Started(t)
        /\ (SomeBufferReleased \/ cpc = "done") =>
              /\ running = 0
              /\ \A t \in Tids : t < failure.index => (t \in flags_cleared /\ w_joined[t])
              /\ s_joined

\* C5 witness: creating worker 1 failed; worker 0 and the sampler are joined
\* and the Worker array is freed.
C5_Witness ==
    /\ failure = Failed("worker", 1)
    /\ w_joined[0] /\ s_joined
    /\ workers = "FREED"

FailCountPcs == {"fail_buf", "fail_idx"}
FailStatusPcs == {"fail_buf_status", "fail_idx_status"}
FailPcs == FailCountPcs \cup FailStatusPcs

\* Worker i has hit an allocation failure in this run.
WorkerFailed(i) ==
    \/ wpc[i] \in FailPcs
    \/ workers = "LIVE" /\ w_status[i] = WORKER_ALLOC_FAIL

RowAllZero(i) == DOMAIN thread_history_data[i] = {}

\* C6: a worker whose allocation fails counts exactly one error, sets its
\* status to ALLOC_FAILED and returns; the status stays ALLOC_FAILED while
\* the Worker array of the run exists, its iteration counter stays 0 and
\* its history row stays all zero.
C6_WorkerAllocFailure ==
    [][ \A i \in Tids :
          /\ (wpc[i] \in FailCountPcs /\ wpc'[i] # wpc[i]) =>
                (errors' = errors + 1 /\ wpc'[i] \in FailStatusPcs)
          /\ (wpc[i] \in FailStatusPcs /\ wpc'[i] # wpc[i]) =>
                (errors' = errors /\ w_status'[i] = WORKER_ALLOC_FAIL /\ wpc'[i] = "done")
          /\ wpc[i] = "done" => wpc'[i] \in {"done", "none"}
          /\ (workers = "LIVE" /\ w_status[i] = WORKER_ALLOC_FAIL /\ workers' = "LIVE") =>
                w_status'[i] = WORKER_ALLOC_FAIL
          /\ WorkerFailed(i)' => (w_iters'[i] = 0 /\ RowAllZero(i)')
      ]_vars

\* C6 witness: worker 0 failed to allocate its buffer and has returned, one
\* error is counted, and worker 1 has published an iteration.
C6_Witness ==
    /\ workers = "LIVE"
    /\ w_status[0] = WORKER_ALLOC_FAIL /\ w_buf[0] = "NULL" /\ wpc[0] = "done"
    /\ errors = 1
    /\ ~RowAllZero(1)

\* C7: a worker's allocation failure leaves the session run flag, the other
\* workers' run flags and the controller alone; the run flag is cleared only
\* by a stop request, by the deadline or by the cleanup after a startup
\* failure; and every started worker, failed or not, is joined when the
\* controller returns.
C7_WorkerFailureIsLocal ==
    [][ /\ \A i \in Tids :
              (wpc'[i] # wpc[i] /\ (wpc[i] \in FailPcs \/ wpc'[i] \in FailPcs)) =>
                  (running' = running /\ w_running' = w_running /\ cpc' = cpc)
        /\ (running = 1 /\ running' = 0) =>
              \/ btn_stop /\ ~btn_stop'
              \/ cpc = "poll" /\ DeadlineReached(end_time, now)
              \/ cpc = "cleanup" /\ failure.kind # "none"
        /\ cpc' = "done" => \A t \in Tids : Started(t)' => w_joined'[t]
      ]_vars

\* C7 witness: worker 0 has failed and returned while the session is still
\* running and worker 1 is in its run loop.
C7_Witness ==
    /\ workers = "LIVE"
    /\ w_status[0] = WORKER_ALLOC_FAIL /\ wpc[0] = "done"
    /\ running = 1
    /\ wpc[1] = "iterate"

\* C8: in every run, failed startup included, gui_update_stopped is
\* scheduled exactly once, by a step taken when all started threads are
\* joined and all session buffers are released.
C8_StoppedNotifiedOnce ==
    [][ /\ stopped_scheduled' <= 1
        /\ (stopped_scheduled' > stopped_scheduled) => (AllStartedJoined /\ BuffersReleased)
        /\ cpc' = "done" => stopped_scheduled' = 1
        /\ cpc' \notin {"done", "idle"} => stopped_scheduled' = 0
      ]_vars

\* C8 witness: the second run failed to start its sampler and has scheduled
\* its notification.
C8_Witness ==
    /\ runs = 2
    /\ failure.kind = "sampler"
    /\ cpc = "done"
    /\ stopped_scheduled = 1

AllThreadsReturned ==
    /\ \A t \in Tids : wpc[t] \in {"none", "done"}
    /\ spc \in {"none", "done"}

\* C9: under fair scheduling, once the run flag of a started session is
\* cleared, every worker and the sampler return, the joins return and the
\* controller returns (Stopped).
C9_ClearedFlagLeadsToStopped ==
    (cpc \notin {"idle", "init", "done"} /\ running = 0)
        ~> (cpc = "done" /\ AllThreadsReturned)

\* C9 witness: the controller cleared worker 0's own run flag before the
\* worker set it to 1; the worker now tests the loop condition with its own
\* flag set and the session flag cleared.
C9_Witness ==
    /\ 0 \in flags_cleared
    /\ wpc[0] = "loop"
    /\ w_running[0] = 1
    /\ running = 0

\* C10: with a duration D > 0 the run flag is false once more than
\* D + one poll interval + one sample interval has passed since start_time.
C10_DeadlineBound ==
    (running = 1 /\ duration_sec > 0 /\ cpc # "init") =>
        now - start_time <= duration_sec * 1000 + PollIntervalMs + CPU_SAMPLE_INTERVAL_MS

\* C10 witness: the deadline test has cleared the run flag.
C10_Witness ==
    /\ cpc = "cleanup"
    /\ running = 0
    /\ end_time > 0 /\ now >= end_time
    /\ btn_stop
    /\ failure = NoFailure

(* ---------- unbounded runs ---------- *)

\* The controller is in the poll loop of lines 139-146.
InPollLoop == cpc \in {"poll", "poll_sleep"}

\* A step of on_btn_stop_clicked that passed its early return.
StopClick == btn_stop /\ ~btn_stop'

\* C11: with duration 0 the controller never clears the run flag itself:
\* while the run flag is set the controller stays in its poll loop, and the
\* flag is cleared only by a stop request.
C11_NoDeadlineWithoutDuration ==
    [][(duration_sec = 0 /\ InPollLoop /\ running = 1) =>
          /\ InPollLoop'
          /\ running' = 0 => StopClick]_vars

\* C11 witness: an unbounded run is still running after the controller has
\* slept through a poll interval and tested the loop condition again.
C11_Witness ==
    /\ duration_sec = 0
    /\ end_time = 0
    /\ cpc = "poll_sleep"
    /\ now >= start_time + PollIntervalMs
    /\ running = 1

(* ---------- the controller's life cycle ---------- *)

\* Lines 33-137: from the entry of controller_thread_func to the end of the
\* worker-creation loop.
AllocPcs ==
    {"init", "alloc_cpu_usage", "alloc_cpu_history", "alloc_cpu_history_rows",
     "alloc_cpu_samples", "alloc_thread_history", "alloc_thread_history_rows",
     "alloc_workers", "create_sampler", "create_workers"}

\* Lines 150-190: from the store of line 149 to the notification.
CleanupPcs ==
    {"clear_flags", "join_workers", "join_sampler", "free_thread_history_rows",
     "free_thread_history", "null_thread_history", "free_workers", "null_workers",
     "free_cpu", "free_samples", "notify"}

\* The state of the session, read off the controller's position: no
\* controller thread (Idle), lines 33-137 (Allocating), the poll loop of lines
\* 139-146 (Running), the cleanup label reached from the loop with the store
\* of line 149 still to come (Stopping), the cleanup label reached by a goto
\* and everything after line 149 (Cleanup), returned (Stopped).
Phase ==
    CASE cpc = "idle" -> "Idle"
      [] cpc \in AllocPcs -> "Allocating"
      [] InPollLoop -> "Running"
      [] cpc = "cleanup" -> IF failure = NoFailure THEN "Stopping" ELSE "Cleanup"
      [] cpc \in CleanupPcs -> "Cleanup"
      [] cpc = "done" -> "Stopped"

\* C12: the controller moves only Idle -> Allocating -> Running -> Stopping
\* -> Cleanup -> Stopped (and back to Idle once its handle is joined); a
\* startup failure moves from Allocating directly to Cleanup, and Running is
\* never entered after a startup failure.
C12_LifecycleOrder ==
    [][/\ Phase' # Phase =>
             \/ Phase = "Idle" /\ Phase' = "Allocating"
             \/ Phase = "Allocating" /\ Phase' = "Running" /\ failure' = NoFailure
             \/ Phase = "Allocating" /\ Phase' = "Cleanup" /\ failure' # NoFailure
             \/ Phase = "Running" /\ Phase' = "Stopping"
             \/ Phase = "Stopping" /\ Phase' = "Cleanup"
             \/ Phase = "Cleanup" /\ Phase' = "Stopped"
             \/ Phase = "Stopped" /\ Phase' = "Idle"
       /\ (failure = NoFailure /\ failure' # NoFailure) => Phase' = "Cleanup"
       /\ failure' # NoFailure => Phase' \notin {"Running", "Stopping"}]_vars

\* C12 witness: a second run has started all its workers, passed its
\* deadline with no stop request, joined the workers and returned.
C12_Witness ==
    /\ runs = 2
    /\ cpc = "done"
    /\ failure = NoFailure
    /\ \A t \in Tids : t < threads => w_joined[t]
    /\ duration_sec > 0 /\ now >= start_time + duration_sec * 1000
    /\ btn_stop

(* ---------- repeated stop requests ---------- *)

\* The program's own state: everything but the presentation-layer and ring
\* bookkeeping.
engineVars == <<uiVars, cfgVars, now, sessVars, cpu_count, cpuBufVars, histVars, arrVars,
                ctlVars, wFieldVars, wThreadVars, smpVars, fault, runVars, sysVars, sensVars>>

\* Variant of on_btn_stop_ignored in which a stop request that finds the run
\* flag cleared schedules the stopped notification itself.
on_btn_stop_ignored_Notify ==
    /\ dpc = "idle"
    /\ running = 0
    /\ stops_ignored < MaxStops
    /\ stops_ignored' = stops_ignored + 1
    /\ idle_queue' = Append(idle_queue, "stopped")
    /\ stopped_scheduled' = stopped_scheduled + 1
    /\ UNCHANGED <<btn_start, btn_stop, controller_thread, runs, cfgVars, now, sessVars,
                   cpu_count, cpuBufVars, histVars, arrVars, ctlVars, wFieldVars,
                   wThreadVars, smpVars, fault, runVars>>
    /\ UNCHANGED <<sysVars, system_history_mutex, dpc, draw_fault, ringVars, winVars, pureVars, sensVars, peak_held>>

\* on_btn_stop_clicked, line 429: a further invocation of the handler finds
\* the run flag already cleared and returns at once.
on_btn_stop_ignored ==
    /\ dpc = "idle"
    /\ running = 0
    /\ stops_ignored < MaxStops
    /\ stops_ignored' = stops_ignored + 1
    /\ UNCHANGED engineVars
    /\ UNCHANGED <<system_history_mutex, dpc, draw_fault, ringVars, winVars, pureVars, peak_held>>

StopNext == FirstRunNext \/ on_btn_stop_ignored

\* The first run of a session, with stop requests repeated at any time.
StopSpec == Init /\ [][StopNext]_vars

\* In the first run: the stop handler has passed its early return (it alone
\* makes the stop button insensitive again once gui_update_started has run).
StopEffective ==
    /\ ~btn_stop
    /\ controller_thread # 0
    /\ \A k \in 1 .. Len(idle_queue) : idle_queue[k] # "started"

\* The stop requests of the run so far.
StopRequests == stops_ignored + (IF StopEffective THEN 1 ELSE 0)

\* C13: stop is idempotent: a stop request that finds the run flag cleared
\* changes nothing, and a run that received two or more stop requests ends
\* with the run flag false, every buffer freed once and exactly one stopped
\* notification.
C13_StopIdempotent ==
    /\ [][stops_ignored' # stops_ignored => UNCHANGED engineVars]_vars
    /\ []((cpc = "done" /\ StopRequests >= 2) =>
             /\ running = 0
             /\ stopped_scheduled = 1
             /\ BuffersReleased
             /\ ~fault)

\* C13 witness: a run that was stopped by one request and received another
\* one afterwards has returned.
C13_Witness ==
    /\ cpc = "done"
    /\ StopEffective
    /\ stops_ignored >= 1
    /\ stopped_scheduled = 1
    /\ workers_started = 0 /\ w_joined[0]

(* ---------- presentation layer: the draw handlers ---------- *)

\* on_draw_iters, lines 893 and 906: the handler goes on to draw only when the
\* Worker array and the row array are non-NULL and there is something to show.
DrawItersProceeds ==
    /\ workers # "NULL"
    /\ thread_history # "NULL"
    /\ history_len > 1
    /\ threads > 0

\* on_draw_iters, lines 893-935: the tests that precede the copy.  A handler
\* that returns early leaves nothing behind.
D_Check ==
    /\ dpc = "idle"
    /\ DrawItersProceeds
    /\ dpc' = "copy"
    /\ UNCHANGED <<engineVars, system_history_mutex, draw_fault, stops_ignored, ringVars, winVars, pureVars,
                   peak_held>>

\* on_draw_iters, lines 937-955: under history_mutex, every slot of the rows
\* of threads 0 .. threads-1 is read through app->thread_history.
D_Copy ==
    /\ dpc = "copy"
    /\ draw_fault' = (draw_fault
          \/ thread_history # "LIVE"
          \/ \E t \in Tids : t < threads /\ thread_history_rows[t] # "LIVE")
    /\ peak_held' = PeakHeld(DrawItersLocks)
    /\ dpc' = "status"
    /\ UNCHANGED <<engineVars, system_history_mutex, stops_ignored, ringVars, winVars, pureVars>>

\* on_draw_iters, lines 1001-1017: with no lock held, the status of every
\* Worker entry is read through app->workers.
D_Status ==
    /\ dpc = "status"
    /\ draw_fault' = (draw_fault \/ workers # "LIVE")
    /\ dpc' = "idle"
    /\ UNCHANGED <<engineVars, system_history_mutex, stops_ignored, ringVars, winVars, pureVars, peak_held>>

on_draw_iters == D_Check \/ D_Copy \/ D_Status

\* on_draw_system_graph, lines 752-772: returns early while the system ring is
\* empty, otherwise takes system_history_mutex.
DS_Lock ==
    /\ dpc = "idle"
    /\ system_history_filled # 0
    /\ system_history_mutex = "none"
    /\ system_history_mutex' = "ui"
    /\ peak_held' = PeakHeld(DrawSystemLocks)
    /\ dpc' = "sys_copy"
    /\ UNCHANGED <<engineVars, draw_fault, stops_ignored, ringVars, winVars, pureVars>>

\* on_draw_system_graph, lines 774-790: copies the filled part of both system
\* buffers, oldest first, and releases the mutex.
DS_Copy ==
    /\ dpc = "sys_copy"
    /\ system_history_mutex' = "none"
    /\ dpc' = "idle"
    /\ UNCHANGED <<engineVars, draw_fault, stops_ignored, ringVars, winVars, pureVars, peak_held>>

on_draw_system_graph == DS_Lock \/ DS_Copy

\* A start click for an unbounded run.  (With a duration of one second the
\* rows hold one slot and on_draw_iters returns at line 906.)
DrawStart == FirstStart /\ duration_sec' = 0

DrawNext ==
    \/ Controller \/ (\E i \in Tids : Worker(i)) \/ Sampler
    \/ DrawStart \/ gui_update_started \/ on_btn_stop_clicked \/ gui_update_stopped
    \/ on_draw_iters \/ on_draw_system_graph

\* The first run of a session, with the two graphs redrawn at any time.
DrawSpec == Init /\ [][DrawNext]_vars

\* C14: the presentation layer never reads a per-thread history row or a
\* Worker entry that is not allocated: whenever on_draw_iters reads through
\* app->thread_history or app->workers, the array and the rows are live.
C14_DrawReadsLiveBuffers == ~draw_fault

(* ---------- the system-history ring and its lock ---------- *)

\* The sampler takes system_history_mutex somewhere in lines 71-98.
SamplerHoldsSystemLock ==
    \E k \in 1 .. Len(SamplerSystemLocks) :
        SamplerSystemLocks[k] = Lock("system_history_mutex")

\* C15: every sampler update of the system-history ring (position, slots,
\* fill count) is made while the sampler holds system_history_mutex, the lock
\* the presentation layer holds while it copies the ring: the sampler locks
\* it, and no update falls inside a copy of on_draw_system_graph.
C15_SystemRingUnderLock ==
    [][sysVars' # sysVars =>
          /\ SamplerHoldsSystemLock
          /\ system_history_mutex # "ui"]_vars

(* ---------- lock nesting ---------- *)

\* C16: no thread ever holds more than one of the engine's locks: every
\* locking section of the controller, the sampler, the workers and the draw
\* handlers releases its lock before the next one is taken, and the draw
\* handler that holds system_history_mutex does nothing but its copy.
C16_AtMostOneLock ==
    /\ peak_held <= 1
    /\ system_history_mutex = "ui" => dpc = "sys_copy"

\* C16 witness: the sampler has been through its locking sections of lines
\* 45-110 and on_draw_system_graph is holding system_history_mutex.
C16_Witness ==
    /\ system_history_mutex = "ui"
    /\ system_history_filled > 0
    /\ spc = "check"
    /\ samples > 0
    /\ peak_held = 1

(* ---------- ring bounds ---------- *)

\* A position inside a ring of the given length.
InRing(pos, len) == pos \in 0 .. len - 1

\* The per-thread and the system ring: position inside the ring, fill count
\* (the system ring has one) at most the length.
SharedRingsInRange ==
    /\ InRing(history_pos, history_len)
    /\ InRing(system_history_pos, SystemHistoryLen)
    /\ system_history_filled <= SystemHistoryLen

RingKinds == {"core", "system", "thread"}

\* The position a ring is initialised with: -1 for the per-core ring
\* (core.c 50), 0 for the system ring (zeroed AppContext, main.c) and for the
\* per-thread ring (core.c 88).
RingStart(kind) == IF kind = "core" THEN -1 ELSE 0

\* A freshly initialised ring of some kind and capacity.
RingInit ==
    /\ EngineInit
    /\ ShuffleIdle /\ GeneratorIdle /\ UsageIdle /\ SensorIdle /\ SystemRingIdle
    /\ ring_kind \in RingKinds
    /\ ring_len \in 1 .. MaxRingLen
    /\ ring_pos = RingStart(ring_kind)
    /\ ring_filled = 0
    /\ ring_writes = 0

\* metrics.c 53-66: one write of the per-core ring.
R_CoreWrite ==
    /\ ring_kind = "core"
    /\ ring_writes < MaxWrites
    /\ ring_pos' = RingAdvance(ring_pos, ring_len)
    /\ ring_filled' = RingFill(ring_filled, ring_len)
    /\ ring_writes' = ring_writes + 1
    /\ UNCHANGED <<engineVars, presVars, peak_held, pureVars, winVars, ring_kind, ring_len>>

\* metrics.c 71-98: one write of the system ring.
R_SystemWrite ==
    /\ ring_kind = "system"
    /\ ring_writes < MaxWrites
    /\ ring_pos' = RingAdvance(ring_pos, ring_len)
    /\ ring_filled' = RingFill(ring_filled, ring_len)
    /\ ring_writes' = ring_writes + 1
    /\ UNCHANGED <<engineVars, presVars, peak_held, pureVars, winVars, ring_kind, ring_len>>

\* metrics.c 101-110: one advance of the per-thread ring, which keeps no
\* fill count.
R_ThreadAdvance ==
    /\ ring_kind = "thread"
    /\ ring_writes < MaxWrites
    /\ ring_pos' = RingAdvance(ring_pos, ring_len)
    /\ ring_writes' = ring_writes + 1
    /\ UNCHANGED <<engineVars, presVars, peak_held, pureVars, winVars, ring_kind, ring_len, ring_filled>>

RingNext == R_CoreWrite \/ R_SystemWrite \/ R_ThreadAdvance

\* The ring code of the sampler on its own, on rings of every capacity up to
\* MaxRingLen.
RingSpec == RingInit /\ [][RingNext]_vars

\* The writes beyond the first ring_len.
RingExtra == ring_writes - ring_len

\* The fill count of a ring that keeps one has reached the capacity.
RingFull == ring_kind # "thread" => ring_filled = ring_len

\* C18 (original): for every ring of capacity L and every k >= 0, after
\* exactly L+k writes since the ring was initialised the write position
\* equals k mod L and the fill count equals L.
C18_PositionIsKModL ==
    ring_writes >= ring_len =>
        /\ ring_pos = RingExtra % ring_len
        /\ RingFull

\* C18: for every ring of capacity L and every k >= 0, after exactly L+k
\* writes since the ring was initialised the fill count equals L and the
\* write position equals k mod L for the per-thread and the system ring, and
\* (L+k-1) mod L for the per-core ring, whose position starts at -1.
C18_RingArithmetic ==
    ring_writes >= ring_len =>
        /\ ring_pos = IF ring_kind = "core"
                      THEN (ring_len + RingExtra - 1) % ring_len
                      ELSE RingExtra % ring_len
        /\ RingFull

\* C18 witness: a per-core ring of capacity 3 after 3+2 writes.
C18_Witness ==
    /\ ring_kind = "core"
    /\ ring_len = 3
    /\ ring_writes = 5
    /\ ring_pos = 1
    /\ ring_filled = 3

(* ---------- workers publishing into their history rows ---------- *)

\* Line 262, the loop test of worker_main, for sweeps beyond the first
\* MaxIters of a worker.
W_LoopAgain(i) ==
    /\ wpc[i] = "loop"
    /\ W_KeepGoing(i)
    /\ w_iters[i] >= MaxIters
    /\ w_iters[i] < MaxIters + MaxExtraIters
    /\ wpc' = [wpc EXCEPT ![i] = "iterate"]
    /\ fault' = (fault \/ BadDeref(workers))
    /\ UNCHANGED <<runVars, wFrame, sessVars, histVars, wFieldVars>>
    /\ UNCHANGED extVars

PublishNext == FirstRunNext \/ (\E i \in Tids : W_LoopAgain(i))

\* The first run of a session, with workers that sweep more than once between
\* two samples.
PublishSpec == Init /\ [][PublishNext]_vars

\* Worker i leaves the critical section of lines 280-282.
PublishStep(i) == wpc[i] = "publish" /\ wpc'[i] = "loop"

\* The slots that rows r or q hold a count in, and slot p.
RowSlots(r, q, p) == (DOMAIN r) \cup (DOMAIN q) \cup {p}

\* C19: every write of a worker into its history row goes to the slot at the
\* shared write position as it is at the moment of the write, and leaves the
\* position alone; the slot then holds the worker's latest count whatever it
\* held before (last write wins), and no other slot of the row changes.
C19_PublishAtCurrentPosition ==
    [][\A i \in Tids :
          (PublishStep(i) /\ thread_history # "NULL") =>
              /\ history_pos' = history_pos
              /\ \A p \in RowSlots(thread_history_data[i], thread_history_data'[i],
                                   history_pos) :
                    RowRead(thread_history_data'[i], p) =
                        IF p = history_pos THEN w_iters[i]
                        ELSE RowRead(thread_history_data[i], p)]_vars

\* C19 witness: after one sampler cycle of an unbounded run, worker 0 has
\* written slot 1 twice; the slot holds the second count and slot 0 its
\* zero.
C19_Witness ==
    /\ history_len = HISTORY_SAMPLES
    /\ history_pos = 1
    /\ wpc[0] = "loop"
    /\ w_iters[0] = 2
    /\ RowRead(thread_history_data[0], 1) = 2
    /\ RowRead(thread_history_data[0], 0) = 0
    /\ ~fault

(* ---------- the sampler's advance of the per-thread ring ---------- *)

\* The sampler leaves the critical section of lines 101-110.
AdvanceStep == spc = "hist" /\ spc' = "check"

\* The controller allocates or frees a history row (core.c 94-101, 164-165).
RowLifeStep == cpc \in {"alloc_thread_history_rows", "free_thread_history_rows"} /\ ci' # ci

\* C20: each sampler cycle advances the shared per-thread write position by
\* exactly one, wrapping at the length, and sets the slot at the new position
\* to 0 in every worker's row, leaving the other slots alone; between two
\* advances a row changes only by its own worker's publish, so a slot whose
\* worker does not publish still holds the sampler's 0.
C20_SamplerAdvance ==
    [][/\ AdvanceStep =>
             /\ history_pos' = (history_pos + 1) % history_len
             /\ thread_history # "NULL" =>
                   \A t \in Tids : t < threads =>
                      \A p \in RowSlots(thread_history_data[t], thread_history_data'[t],
                                        history_pos') :
                         RowRead(thread_history_data'[t], p) =
                            IF p = history_pos' THEN 0
                            ELSE RowRead(thread_history_data[t], p)
       /\ ~AdvanceStep =>
             /\ history_pos' # history_pos => cpc = "alloc_thread_history"
             /\ \A t \in Tids :
                   thread_history_data'[t] # thread_history_data[t] =>
                      PublishStep(t) \/ RowLifeStep]_vars

\* C20 witness: in a run of one second (rows of one slot) worker 0 published
\* its count, the sampler then advanced the position around the ring and
\* zeroed the slot, and the worker has not published since.
C20_Witness ==
    /\ history_len = 1
    /\ history_pos = 0
    /\ thread_history = "LIVE"
    /\ samples = 1
    /\ spc = "check"
    /\ w_iters[0] = 1
    /\ wpc[0] = "loop"
    /\ RowRead(thread_history_data[0], 0) = 0
    /\ ~fault

(* ---------- cancellation of the worker loop ---------- *)

\* The positions of worker_main inside one sweep of lines 269-282.
SweepPcs == {"iterate", "inc_total", "publish"}

\* C21: once the run flag is cleared a worker starts no new sweep: at the
\* loop test it can only leave, so it completes at most the sweep it is in,
\* and a sweep is one increment of the worker's counter, one increment of the
\* total counter and one publish, in that order; the flag is not set again
\* while a worker is in its loop.
C21_AtMostOneMoreSweep ==
    [][\A i \in Tids :
          /\ (running = 0 /\ wpc[i] = "loop") => wpc'[i] \in {"loop", "done"}
          /\ (wpc[i] = "iterate" /\ wpc'[i] # "iterate") =>
                wpc'[i] = "inc_total" /\ w_iters'[i] = w_iters[i] + 1
          /\ (wpc[i] = "inc_total" /\ wpc'[i] # "inc_total") =>
                wpc'[i] = "publish" /\ total_iters' = total_iters + 1
          /\ (wpc[i] = "publish" /\ wpc'[i] # "publish") => wpc'[i] = "loop"
          /\ (wpc[i] \in SweepPcs \cup {"loop"} /\ w_iters'[i] # w_iters[i]) =>
                wpc[i] = "iterate"
          /\ (running = 0 /\ running' # 0) => wpc[i] \in {"none", "done"}]_vars

\* C21 witness: the stop handler cleared the run flag while worker 0 was in
\* its second sweep, between the increment of its own counter and that of the
\* total counter.
C21_Witness ==
    /\ running = 0
    /\ StopEffective
    /\ wpc[0] = "inc_total"
    /\ w_iters[0] = 2
    /\ total_iters = 1

(* ---------- shuffle32 and the index array of the pointer chase ---------- *)

\* utils.c 69-83 and core.c 247-263, 336-341.  shuf holds one call of
\* shuffle32(a, n, seed): who calls (worker_main on the identity array, or any
\* other caller on an arbitrary array), the array and its copy a0 as passed,
\* the loop index i and the number of times the seed has been advanced; for
\* the worker, also the walk of kernel_ptrchase over the finished array.

MaxShuffleLen == 4
MaxElem == 1
MaxCalls == 4
RngBits == 3

\* The largest generator word.  The generator's words are RngBits wide here;
\* the code computes the same expressions on 64-bit words.
UINT64_MAX == 2 ^ RngBits - 1

\* core.c 259: for (i = 0; i < idx_len; i++) idx[i] = i.
IdentityArray_OneBased(n) == [k \in 0 .. n - 1 |-> k + 1]

IdentityArray(n) == [k \in 0 .. n - 1 |-> k]

ShuffleCall(caller, ptr, a, n) ==
    [phase |-> "call", caller |-> caller, ptr |-> ptr, a |-> a, a0 |-> a, n |-> n,
     i |-> 0, seed |-> 0, at |-> 0, steps |-> 0, visited |-> {}]

\* core.c 249-260: the worker passes a freshly allocated identity array of
\* idx_len > 0 entries.
WorkerCalls ==
    {ShuffleCall("worker", "LIVE", IdentityArray(n), n) : n \in 1 .. MaxShuffleLen}

\* Any other caller (test_main.c 109-154): an array of any length with any
\* elements, or NULL with any length.
OtherCalls ==
    UNION {{ShuffleCall("other", "LIVE", a, n) : a \in [0 .. n - 1 -> 0 .. MaxElem]}
            \cup {ShuffleCall("other", "NULL", <<>>, n)} : n \in 0 .. MaxShuffleLen}

ShuffleInit ==
    /\ EngineInit
    /\ RingIdle /\ GeneratorIdle /\ UsageIdle /\ SensorIdle /\ SystemRingIdle
    /\ shuf \in WorkerCalls \cup OtherCalls

\* utils.c 70: if (a == NULL || n <= 1) return.
ShuffleSkips(ptr, n) == ptr = "NULL" \/ n <= 1

\* utils.c 74: limit = UINT64_MAX - (UINT64_MAX % (i + 1)), with k = i + 1.
RejectionLimit_None(k) == UINT64_MAX + 1

RejectionLimit(k) == UINT64_MAX - (UINT64_MAX % k)

\* utils.c 81: tmp = a[i]; a[i] = a[j]; a[j] = tmp.
Swap_Overwrite(a, i, j) == [a EXCEPT ![i] = a[j]]

Swap(a, i, j) == [a EXCEPT ![i] = a[j], ![j] = a[i]]

\* utils.c 70-71: the early return, or the loop entered at i = n - 1.
Sh_Enter ==
    /\ shuf.phase = "call"
    /\ shuf' = IF ShuffleSkips(shuf.ptr, shuf.n)
               THEN [shuf EXCEPT !.phase = "returned"]
               ELSE [shuf EXCEPT !.phase = "draw", !.i = shuf.n - 1]
    /\ UNCHANGED <<engineVars, presVars, ringVars, winVars, peak_held, gen, usg, sysring>>

\* utils.c 71-82: one call of the generator inside the loop.  A word at or
\* above the limit is drawn again; any other word r gives j = r % (i + 1),
\* the swap of a[i] and a[j], and --i (the loop ends when i reaches 0).  Every
\* call advances the caller's seed.
Sh_Draw ==
    /\ shuf.phase = "draw"
    /\ shuf.seed < MaxCalls
    /\ \E r \in 0 .. UINT64_MAX :
          shuf' = IF r >= RejectionLimit(shuf.i + 1)
                  THEN [shuf EXCEPT !.seed = @ + 1]
                  ELSE [shuf EXCEPT !.seed = @ + 1,
                                    !.a = Swap(@, shuf.i, r % (shuf.i + 1)),
                                    !.i = @ - 1,
                                    !.phase = IF shuf.i - 1 > 0 THEN "draw" ELSE "returned"]
    /\ UNCHANGED <<engineVars, presVars, ringVars, winVars, peak_held, gen, usg, sysring>>

\* core.c 261: w->idx[w->idx_len - 1] = 0.
Sh_ForceLast ==
    /\ shuf.phase = "returned"
    /\ shuf.caller = "worker"
    /\ shuf' = [shuf EXCEPT !.phase = "built", !.a[shuf.n - 1] = 0]
    /\ UNCHANGED <<engineVars, presVars, ringVars, winVars, peak_held, gen, usg, sysring>>

\* core.c 336-341: one hop i = idx[i] of kernel_ptrchase, which starts at
\* index 0 and makes n hops per round.
Sh_Chase ==
    /\ shuf.phase = "built"
    /\ shuf' = [shuf EXCEPT !.at = shuf.a[shuf.at],
                            !.visited = @ \cup {shuf.a[shuf.at]},
                            !.steps = @ + 1,
                            !.phase = IF shuf.steps + 1 = shuf.n THEN "chased" ELSE "built"]
    /\ UNCHANGED <<engineVars, presVars, ringVars, winVars, peak_held, gen, usg, sysring>>

ShuffleNext == Sh_Enter \/ Sh_Draw \/ Sh_ForceLast \/ Sh_Chase

\* shuffle32 on its own, on every array of up to MaxShuffleLen elements and
\* for every word the generator can return.
ShuffleSpec == ShuffleInit /\ [][ShuffleNext]_vars

\* C22: for every length N > 1 and every outcome of the shuffle, the index
\* array the worker builds is one cycle over all N indices: the walk
\* i = idx[i] from index 0 has visited N distinct indices and is back at 0
\* after exactly N hops.
C22_SingleCycle ==
    (shuf.phase = "chased" /\ shuf.n > 1)
        => /\ shuf.visited = 0 .. shuf.n - 1
           /\ shuf.at = 0

\* The number of slots of array a that hold value v.
Occurrences(a, v) == Cardinality({k \in DOMAIN a : a[k] = v})

SameMultiset(a, b) ==
    /\ DOMAIN a = DOMAIN b
    /\ \A v \in {a[k] : k \in DOMAIN a} \cup {b[k] : k \in DOMAIN b} :
          Occurrences(a, v) = Occurrences(b, v)

\* C23: shuffle32 preserves the multiset of the elements, for every length
\* M >= 0 and every seed (after every swap the array holds the elements it was
\* passed, each as many times); for a NULL array or M <= 1 it returns having
\* changed neither the array nor the seed.
C23_ShufflePreservesMultiset ==
    shuf.phase \in {"draw", "returned"}
        => /\ SameMultiset(shuf.a, shuf.a0)
           /\ (shuf.ptr = "NULL" \/ shuf.n <= 1) => (shuf.a = shuf.a0 /\ shuf.seed = 0)

\* shuffle32 has returned from an array of three elements, two of them equal,
\* that it has reordered, after one rejected word.
C23_Witness ==
    /\ shuf.phase = "returned"
    /\ shuf.caller = "other"
    /\ shuf.ptr = "LIVE"
    /\ shuf.n = 3
    /\ shuf.a0[0] = shuf.a0[1]
    /\ shuf.a # shuf.a0
    /\ shuf.seed = 3

\* The generator words that shuffle32 accepts at k = i + 1 and that select
\* swap index j.
Accepted(k, j) == {r \in 0 .. UINT64_MAX : r < RejectionLimit(k) /\ r % k = j}

\* C24: shuffle32 has no positional bias: at each step i the rejection bound
\* is a multiple of i + 1, and every swap index j in [0, i] is selected by
\* exactly the same number (at least one) of the accepted generator words.
C24_UniformSwapIndex ==
    shuf.phase = "draw"
        => LET k == shuf.i + 1
           IN  /\ RejectionLimit(k) % k = 0
               /\ RejectionLimit(k) >= k
               /\ \A j \in 0 .. shuf.i :
                     Cardinality(Accepted(k, j)) = RejectionLimit(k) \div k
               /\ \A r \in 0 .. RejectionLimit(k) - 1 : r % k \in 0 .. shuf.i

\* shuffle32 is about to draw for i = 2 (three candidates, where the largest
\* word is not a multiple of 3) after a word that was rejected.
C24_Witness ==
    /\ shuf.phase = "draw"
    /\ shuf.i = 2
    /\ shuf.n = 3
    /\ shuf.seed = 1

(* ---------- splitmix64 ---------- *)

\* utils.c 50-55.  A uint64_t is a tuple of eight bytes, least significant
\* first; every operation below is the C operation modulo 2^64.

MaxGenCalls == 3

Bytes == 8
ByteRange == 256

\* The word of a number below 2^31.
ToWord(n) == [k \in 1 .. Bytes |-> IF k <= 4 THEN (n \div ByteRange ^ (k - 1)) % ByteRange ELSE 0]

RECURSIVE AddFrom(_, _, _, _)
AddFrom(a, b, k, carry) ==
    IF k > Bytes THEN <<>>
    ELSE LET t == a[k] + b[k] + carry
         IN  <<t % ByteRange>> \o AddFrom(a, b, k + 1, t \div ByteRange)

\* a + b on uint64_t: the carry out of the top byte is dropped.
Add(a, b) == AddFrom(a, b, 1, 0)

RECURSIVE ColumnFrom(_, _, _, _)
ColumnFrom(a, b, c, i) ==
    IF i > c THEN 0 ELSE a[i] * b[c + 1 - i] + ColumnFrom(a, b, c, i + 1)

RECURSIVE CarryFrom(_, _, _, _)
CarryFrom(a, b, k, carry) ==
    IF k > Bytes THEN <<>>
    ELSE LET t == ColumnFrom(a, b, k, 1) + carry
         IN  <<t % ByteRange>> \o CarryFrom(a, b, k + 1, t \div ByteRange)

\* a * b on uint64_t: the low 64 bits of the product.
Mul(a, b) == CarryFrom(a, b, 1, 0)

RECURSIVE XorByte(_, _, _)
XorByte(x, y, bit) ==
    IF bit = ByteRange THEN 0
    ELSE bit * (((x \div bit) + (y \div bit)) % 2) + XorByte(x, y, 2 * bit)

\* a ^ b.
Xor(a, b) == [k \in 1 .. Bytes |-> XorByte(a[k], b[k], 1)]

\* a >> n, for 0 <= n < 64.
Shr(a, n) ==
    LET q == n \div 8
        r == n % 8
        byte(k) == IF k <= Bytes THEN a[k] ELSE 0
    IN  [k \in 1 .. Bytes |->
            (byte(k + q) \div 2 ^ r) + (byte(k + q + 1) % 2 ^ r) * 2 ^ (8 - r)]

\* utils.c 51-53: the three constants, 0x9E3779B97F4A7C15, 0xBF58476D1CE4E5B9
\* and 0x94D049BB133111EB.
GOLDEN_GAMMA == <<21, 124, 74, 127, 185, 121, 55, 158>>
MIX_A == <<185, 229, 228, 28, 109, 71, 88, 191>>
MIX_B == <<235, 17, 49, 19, 187, 73, 208, 148>>

\* utils.c 51: *x += 0x9E3779B97F4A7C15ULL.
Advance_Stuck(x) == x

Advance(x) == Add(x, GOLDEN_GAMMA)

\* utils.c 52-54: the value returned for the advanced state z.
Mix(z) ==
    LET z1 == Mul(Xor(z, Shr(z, 30)), MIX_A)
        z2 == Mul(Xor(z1, Shr(z1, 27)), MIX_B)
    IN  Xor(z2, Shr(z2, 31))

\* Seeds: those of the tests (test_main.c 92, 121), of the workers
\* (core.c 258: 0x12340000 + tid), and the ends of the range.
Seeds ==
    {ToWord(0), ToWord(1), ToWord(12345), ToWord(67890),
     ToWord(305397760), ToWord(305397761),
     [k \in 1 .. Bytes |-> ByteRange - 1],
     [k \in 1 .. Bytes |-> IF k = Bytes THEN 128 ELSE 0]}

\* Two generators x and y started from the same seed, with the values each
\* has returned so far.
GeneratorInit ==
    /\ EngineInit
    /\ RingIdle /\ ShuffleIdle /\ UsageIdle /\ SensorIdle /\ SystemRingIdle
    /\ gen \in {[phase |-> "run", seed |-> s, x |-> s, y |-> s, outx |-> <<>>, outy |-> <<>>] :
                   s \in Seeds}

\* splitmix64(&x).
G_CallX ==
    /\ gen.phase = "run"
    /\ Len(gen.outx) < MaxGenCalls
    /\ gen' = [gen EXCEPT !.x = Advance(@), !.outx = Append(@, Mix(Advance(gen.x)))]
    /\ UNCHANGED <<engineVars, presVars, ringVars, winVars, peak_held, shuf, usg, sysring>>

\* splitmix64(&y).
G_CallY ==
    /\ gen.phase = "run"
    /\ Len(gen.outy) < MaxGenCalls
    /\ gen' = [gen EXCEPT !.y = Advance(@), !.outy = Append(@, Mix(Advance(gen.y)))]
    /\ UNCHANGED <<engineVars, presVars, ringVars, winVars, peak_held, shuf, usg, sysring>>

GeneratorNext == G_CallX \/ G_CallY

\* splitmix64 on its own: two generators called in any order.
GeneratorSpec == GeneratorInit /\ [][GeneratorNext]_vars

\* The state of a generator after n calls from seed s: s + n * gamma mod 2^64.
StateAfter(s, n) == Add(s, Mul(ToWord(n), GOLDEN_GAMMA))

\* C25: splitmix64 is deterministic: two generators started from the same
\* seed return the same values call by call and are in the same state after
\* the same number of calls, the state advancing by the fixed constant modulo
\* 2^64 at every call; and the first two values returned differ.
C25_Deterministic ==
    gen.phase = "run"
        => /\ \A k \in 1 .. Len(gen.outx) : k <= Len(gen.outy) => gen.outx[k] = gen.outy[k]
           /\ Len(gen.outx) = Len(gen.outy) => gen.x = gen.y
           /\ gen.x = StateAfter(gen.seed, Len(gen.outx))
           /\ gen.y = StateAfter(gen.seed, Len(gen.outy))
           /\ Len(gen.outx) >= 2 => gen.outx[1] # gen.outx[2]
           /\ Len(gen.outy) >= 2 => gen.outy[1] # gen.outy[2]

\* Both generators, seeded with 12345 as in test_splitmix64, have been called
\* twice and have returned 0x22118258A9D111A0 and then 0x346EDCE5F713F8ED.
C25_Witness ==
    /\ gen.phase = "run"
    /\ gen.seed = ToWord(12345)
    /\ gen.outx = <<<<160, 17, 209, 169, 88, 130, 17, 34>>, <<237, 248, 19, 247, 229, 220, 110, 52>>>>
    /\ gen.outy = gen.outx

(* ---------- compute_usage and the clamp of the sampler ---------- *)

\* metrics.c 217-232, 241-258 and 53-66.  The tick counters of a cpu_sample_t
\* are unsigned long long: sums and differences are taken on 64-bit words.  A
\* double is kept as an exact fraction, a sign and two words; the conversions
\* (double)totald and (double)(totald - idled) are exact below 2^53.

MaxTick == 1
MaxUsage == 3

\* hardstress.h 21: cpu_sample_t.
Samples ==
    [user : 0 .. MaxTick, nice : 0 .. MaxTick, system : 0 .. MaxTick, idle : 0 .. MaxTick,
     iowait : 0 .. MaxTick, irq : 0 .. MaxTick, softirq : 0 .. MaxTick, steal : 0 .. MaxTick]

\* core.c 73-74: memset(.., 0, ..).
ZeroSample ==
    [user |-> 0, nice |-> 0, system |-> 0, idle |-> 0, iowait |-> 0, irq |-> 0,
     softirq |-> 0, steal |-> 0]

\* Every counter of b is at least the counter of a.
Monotone(a, b) ==
    /\ a.user <= b.user /\ a.nice <= b.nice /\ a.system <= b.system /\ a.idle <= b.idle
    /\ a.iowait <= b.iowait /\ a.irq <= b.irq /\ a.softirq <= b.softirq /\ a.steal <= b.steal

\* The bitwise complement of a word, and a - b on uint64_t (a + ~b + 1).
Not(a) == [k \in 1 .. Bytes |-> ByteRange - 1 - a[k]]
Sub(a, b) == Add(Add(a, Not(b)), ToWord(1))

RECURSIVE LessFrom(_, _, _)
LessFrom(a, b, k) ==
    IF k = 0 THEN FALSE
    ELSE IF a[k] # b[k] THEN a[k] < b[k] ELSE LessFrom(a, b, k - 1)

\* a < b on uint64_t.
Less(a, b) == LessFrom(a, b, Bytes)

Double(neg, num, den) == [neg |-> neg, num |-> num, den |-> den]
Zero == Double(FALSE, ToWord(0), ToWord(1))
One == Double(FALSE, ToWord(1), ToWord(1))

\* x < 0.0 and x > 1.0 on a double.
BelowZero(x) == x.neg /\ x.num # ToWord(0)
AboveOne(x) == ~x.neg /\ Less(x.den, x.num)

\* metrics.c 229-230 and 58-59: if (x < 0.0) x = 0.0; if (x > 1.0) x = 1.0.
Clamp_Lower(x) == IF BelowZero(x) THEN Zero ELSE x

Clamp(x) == IF BelowZero(x) THEN Zero ELSE IF AboveOne(x) THEN One ELSE x

\* metrics.c 218-219: idle + iowait.
IdleTicks_NoIowait(s) == ToWord(s.idle)

IdleTicks(s) == Add(ToWord(s.idle), ToWord(s.iowait))

\* metrics.c 220-221: user + nice + system + irq + softirq + steal.
NonIdleTicks(s) ==
    Add(Add(Add(Add(Add(ToWord(s.user), ToWord(s.nice)), ToWord(s.system)), ToWord(s.irq)),
            ToWord(s.softirq)), ToWord(s.steal))

\* metrics.c 217-232.
compute_usage(a, b) ==
    LET idle_a == IdleTicks(a)
        idle_b == IdleTicks(b)
        total_a == Add(idle_a, NonIdleTicks(a))
        total_b == Add(idle_b, NonIdleTicks(b))
        totald == Sub(total_b, total_a)
        idled == Sub(idle_b, idle_a)
    IN  IF totald = ToWord(0) THEN Zero
        ELSE Clamp(Double(FALSE, Sub(totald, idled), totald))

\* What a backend can leave in cpu_usage[c] besides a value of compute_usage:
\* any finite value, in halves from -MaxUsage to MaxUsage.
Delivered ==
    {Double(neg, ToWord(n), ToWord(d)) : neg \in BOOLEAN, n \in 0 .. MaxUsage, d \in 1 .. 2}

\* core.c 65-76: both sample buffers start as copies of the same reading.
UsageInit ==
    /\ EngineInit
    /\ RingIdle /\ ShuffleIdle /\ GeneratorIdle /\ SensorIdle /\ SystemRingIdle
    /\ usg \in {[phase |-> "read", a |-> s, b |-> s, perc |-> Zero, usage |-> Zero,
                 stored |-> Zero] : s \in Samples}

\* metrics.c 245: read_proc_stat fills curr_cpu_samples: the counters have
\* moved on, or start again from zero.
U_Read ==
    /\ usg.phase = "read"
    /\ \E s \in Samples :
          /\ Monotone(usg.a, s) \/ s = ZeroSample
          /\ usg' = [usg EXCEPT !.phase = "compute", !.b = s]
    /\ UNCHANGED <<engineVars, presVars, ringVars, winVars, peak_held, shuf, gen, sysring>>

\* metrics.c 249-253: cpu_usage[i] = compute_usage(prev, curr).
U_Compute ==
    /\ usg.phase = "compute"
    /\ usg' = [usg EXCEPT !.phase = "store", !.perc = compute_usage(usg.a, usg.b)]
    /\ UNCHANGED <<engineVars, presVars, ringVars, winVars, peak_held, shuf, gen, sysring>>

\* metrics.c 56-60: the sampler reads cpu_usage[c], which holds the value of
\* compute_usage or what another backend left there, clamps it and stores it
\* in the ring.
U_Store ==
    /\ usg.phase = "store"
    /\ \E v \in {usg.perc} \cup Delivered :
          usg' = [usg EXCEPT !.phase = "done", !.usage = v, !.stored = Clamp(v)]
    /\ UNCHANGED <<engineVars, presVars, ringVars, winVars, peak_held, shuf, gen, sysring>>

UsageNext == U_Read \/ U_Compute \/ U_Store

\* The usage arithmetic on its own, on every pair of samples with counters up
\* to MaxTick.
UsageSpec == UsageInit /\ [][UsageNext]_vars

\* The number held by a word below 2^24.
WordValue(w) == w[1] + ByteRange * w[2] + ByteRange * ByteRange * w[3]

\* The ticks of a sample, and its idle ticks, as numbers.
TotalOf(s) == s.user + s.nice + s.system + s.idle + s.iowait + s.irq + s.softirq + s.steal
IdleOf(s) == s.idle + s.iowait

\* x is in [0, 1].
InUnit(x) == (~x.neg \/ x.num = ToWord(0)) /\ ~Less(x.den, x.num) /\ x.den # ToWord(0)

\* C26: compute_usage(a, b) returns 0 when a = b, and for every pair of
\* samples whose counters are all non-decreasing from a to b it returns
\* (delta_total - delta_idle) / delta_total (0 when delta_total is 0), a
\* value in [0, 1].
C26_ComputeUsage ==
    usg.phase \in {"store", "done"}
        => /\ usg.a = usg.b => usg.perc = Zero
           /\ Monotone(usg.a, usg.b)
                 => LET dt == TotalOf(usg.b) - TotalOf(usg.a)
                        di == IdleOf(usg.b) - IdleOf(usg.a)
                    IN  /\ InUnit(usg.perc)
                        /\ IF dt = 0 THEN usg.perc = Zero
                           ELSE WordValue(usg.perc.num) * dt = (dt - di) * WordValue(usg.perc.den)

\* compute_usage has returned 1/3 for a pair in which one busy counter and
\* two idle counters have advanced.
C26_Witness ==
    /\ usg.phase = "store"
    /\ Monotone(usg.a, usg.b)
    /\ TotalOf(usg.b) - TotalOf(usg.a) = 3
    /\ IdleOf(usg.b) - IdleOf(usg.a) = 2
    /\ usg.perc = Double(FALSE, ToWord(1), ToWord(3))

\* C27: every value the sampler stores in the per-core usage ring is in
\* [0, 1], whatever value the backend delivered.
C27_StoredUsageInUnit == usg.phase = "done" => InUnit(usg.stored)

\* The sampler has stored 1 for a delivered 3/2.
C27_Witness ==
    /\ usg.phase = "done"
    /\ usg.usage = Double(FALSE, ToWord(3), ToWord(2))
    /\ usg.stored = One

(* ---------- sampling backends that do not answer ---------- *)

\* Any machine: with or without temperature sensors, with or without a
\* readable /proc/stat.
SensorInit ==
    /\ EngineInit
    /\ RingIdle /\ ShuffleIdle /\ GeneratorIdle /\ UsageIdle /\ SystemRingIdle
    /\ SensorStart
    /\ backend \in [temp : BOOLEAN, usage : BOOLEAN]

\* The first run of a session on any machine.
SensorSpec == SensorInit /\ [][FirstRunNext]_vars

\* One pass of the sampler through lines 43-98 with a set run flag.
SampleStep == spc = "check" /\ spc' = "hist"

\* C28: when temperature or usage sampling is unavailable the sampler records
\* the unavailable sentinel as the temperature (and stores no usage), leaves
\* the error counter and the run flag as they are, and keeps cycling: a pass
\* is followed by the history step and the next test of the run flag, and the
\* sampler leaves only once the run flag is cleared.
C28_UnavailableIsNotAnError ==
    [][/\ (SampleStep /\ ~backend.temp) => temp_celsius' = TEMP_UNAVAILABLE
       /\ (SampleStep /\ ~backend.usage) => cpu_sampled' = FALSE
       /\ (SampleStep /\ (~backend.temp \/ ~backend.usage))
             => errors' = errors /\ running' = running /\ failure' = failure
       /\ (spc = "hist" /\ spc' # spc) => (spc' = "check" /\ errors' = errors /\ running' = running)
       /\ (spc = "check" /\ spc' = "done") => running = 0
       /\ backend' = backend]_vars

\* On a machine with no backend at all the sampler has completed a pass: the
\* sentinel is the temperature, no error is counted and the run goes on.
C28_Witness ==
    /\ ~backend.temp /\ ~backend.usage
    /\ spc = "hist"
    /\ samples = 1
    /\ temp_celsius = TEMP_UNAVAILABLE
    /\ ~cpu_sampled
    /\ errors = 0
    /\ running = 1
    /\ \A i \in Tids : i < threads => wpc[i] \in SweepPcs \cup {"loop"}

\* No thread of an earlier run is left: every worker and the sampler either
\* never started or has returned and been joined.
NoThreadLeft ==
    /\ \A t \in Tids : wpc[t] \in {"none", "done"} /\ (Started(t) => w_joined[t])
    /\ spc \in {"none", "done"} /\ (SamplerStarted => s_joined)

\* C30: from a run's start to its Stopped state the error counter and the
\* total-iteration counter never decrease; the only step that lowers either is
\* the reset to 0 with which the controller opens the next run, taken when no
\* thread of the previous run is left.
C30_CountersMonotone ==
    [][(errors' < errors \/ total_iters' < total_iters)
          => /\ cpc = "init" /\ cpc' = "alloc_cpu_usage"
             /\ runs > 1
             /\ errors' = 0 /\ total_iters' = 0
             /\ NoThreadLeft]_vars

\* The second run of a session has just reset the counters, a first run
\* having counted iterations: its workers have not been created yet.
C30_Witness ==
    /\ runs = 2
    /\ cpc = "alloc_cpu_usage"
    /\ total_iters = 0
    /\ errors = 0
    /\ running = 1
    /\ \A t \in Tids : wpc[t] = "none"

(* ---------- a whole run, end to end ---------- *)

\* The controller has finished: every thread is joined, every buffer is
\* released and the stopped notification is queued (core.c 187).
RunStopped == cpc = "done"

\* A timed run with pointer chasing in which no startup step failed.
CleanRun ==
    /\ failure = NoFailure
    /\ threads >= 1
    /\ duration_sec > 0
    /\ kernel_ptr_en

\* No worker of the run has reported a failed allocation.
AllWorkersOk == \A t \in Tids : t < threads => w_status[t] = WORKER_OK

\* The sweeps counted by workers 0 .. n-1 in their own counters.
RECURSIVE Sweeps(_)
Sweeps(n) == IF n = 0 THEN 0 ELSE w_iters[n - 1] + Sweeps(n - 1)

\* The controller's steps after the Worker array is released (core.c 169-187).
AfterWorkersFreed == {"null_workers", "free_cpu", "free_samples", "notify", "done"}

\* The end-to-end scenario read at the Stopped state: for a run with N >= 1
\* workers whose allocations all succeed (no failed step, no error counted),
\* all kernels enabled and duration D > 0, the total-iteration counter is
\* > 0, every per-thread history row has at least one nonzero entry, and the
\* per-core usage ring has at least one filled sample.
C29_EndToEnd ==
    (RunStopped /\ CleanRun /\ errors = 0)
        => /\ total_iters > 0
           /\ \A t \in Tids : t < threads =>
                 (thread_history_rows[t] = "LIVE" /\ DOMAIN thread_history_data[t] # {})
           /\ cpu_history_filled >= 1

\* C29: for a run with N >= 1 workers whose allocations all succeed, all
\* kernels enabled and duration D > 0: when the controller releases the Worker
\* array the error counter is 0 and the total-iteration counter is the number
\* of sweeps the workers completed, and neither changes until the run has
\* stopped; after the run stops the per-thread history rows and the per-core
\* usage ring are released and the ring's fill count is 0.
C29_AfterStop ==
    /\ [][/\ (cpc = "free_workers" /\ cpc' = "null_workers" /\ CleanRun /\ AllWorkersOk)
                => (errors = 0 /\ total_iters = Sweeps(threads))
          /\ (cpc \in AfterWorkersFreed /\ cpc' \in AfterWorkersFreed)
                => (errors' = errors /\ total_iters' = total_iters)]_vars
    /\ [](RunStopped /\ CleanRun
            => /\ thread_history = "NULL"
               /\ \A t \in Tids : thread_history_rows[t] # "LIVE"
               /\ cpu_history = "NULL"
               /\ cpu_history_filled = 0
               /\ cpu_history_len = 0)

\* A timed run of two workers has stopped with no error and one sweep per
\* worker, its sampler having completed a pass: the rows are freed and the
\* per-core ring is empty.
C29_Witness ==
    /\ RunStopped /\ CleanRun
    /\ threads = 2
    /\ errors = 0
    /\ total_iters = 2
    /\ samples = 1
    /\ \A t \in Tids : thread_history_rows[t] = "FREED"
    /\ cpu_history_filled = 0

\* C39: for every index-array length N >= 1 and every outcome of the shuffle,
\* every entry of the index array the worker builds is in [0, N), so the walk
\* i = idx[i] from 0 stays inside the array at every hop.
C39_IndexArrayInRange ==
    (shuf.caller = "worker" /\ shuf.phase \in {"draw", "returned", "built", "chased"})
        => /\ \A k \in 0 .. shuf.n - 1 : shuf.a[k] \in 0 .. shuf.n - 1
           /\ shuf.at \in 0 .. shuf.n - 1
           /\ shuf.visited \subseteq 0 .. shuf.n - 1

\* The walk has made three hops over an array of three entries that the
\* shuffle reordered and whose last slot was then overwritten.
C39_Witness ==
    /\ shuf.phase = "chased"
    /\ shuf.n = 3
    /\ shuf.steps = 3
    /\ shuf.a = [k \in 0 .. 2 |-> IF k = 0 THEN 1 ELSE 0]

\* Worker i takes a step of worker_main.
WorkerStep(i) == wpc[i] \notin {"none", "done"} /\ wpc'[i] # wpc[i]

\* The sampler takes a step of its loop.
SamplerStep == spc \in {"check", "hist"} /\ spc' # spc

\* Row r2 is row r1 with some slots set to 0 and nothing else changed.
OnlyZeroed(r1, r2) ==
    /\ DOMAIN r2 \subseteq DOMAIN r1
    /\ \A p \in DOMAIN r2 : r2[p] = r1[p]

\* C38: a worker writes only into its own row of the per-thread history and
\* never changes the shared write position or another worker's row; during a
\* run the sampler is the only thread that advances the write position (the
\* controller sets it to 0 before any thread exists), and in the rows the
\* sampler only ever writes 0.
C38_HistoryWriters ==
    [][/\ \A i \in Tids :
             WorkerStep(i)
                => /\ history_pos' = history_pos
                   /\ \A t \in Tids : t # i => thread_history_data'[t] = thread_history_data[t]
       /\ history_pos' # history_pos
             => \/ spc = "hist" /\ spc' = "check"
                \/ cpc = "alloc_thread_history" /\ history_pos' = 0
                      /\ (\A t \in Tids : wpc[t] \in {"none", "done"}) /\ spc \in {"none", "done"}
       /\ SamplerStep
             => \A t \in Tids : OnlyZeroed(thread_history_data[t], thread_history_data'[t])]_vars

\* Worker 1 has published its count into its own row while worker 0's row
\* holds worker 0's count, and the sampler has advanced the position once.
C38_Witness ==
    /\ threads = 2
    /\ history_len = 240
    /\ history_pos = 1
    /\ wpc[1] = "loop"
    /\ DOMAIN thread_history_data[1] = {1}
    /\ DOMAIN thread_history_data[0] = {0}

\* The workers that have incremented their own counter and not yet the
\* session's (between lines 276 and 277).
BetweenIncrements == {t \in Tids : t < threads /\ wpc[t] = "inc_total"}

\* C37: while the Worker array exists, the total-iteration counter never
\* exceeds the sum of the per-worker iteration counters and lags it by at most
\* the number of workers between their two increments; once all workers have
\* been joined the two are equal.
C37_TotalTracksWorkers ==
    workers = "LIVE"
        => /\ total_iters <= Sweeps(threads)
           /\ Sweeps(threads) - total_iters <= Cardinality(BetweenIncrements)
           /\ (\A t \in Tids : t < threads => w_joined[t]) => total_iters = Sweeps(threads)

\* Worker 0 is between its two increments on its second sweep while worker 1
\* has completed one sweep: the counters read 3 and 2.
C37_Witness ==
    /\ workers = "LIVE"
    /\ threads = 2
    /\ wpc[0] = "inc_total"
    /\ w_iters[0] = 2
    /\ w_iters[1] = 1
    /\ wpc[1] = "loop"
    /\ total_iters = 2

\* All workers of a run have been joined with their counters adding up to the
\* total.
C37_Joined ==
    /\ workers = "LIVE"
    /\ threads = 2
    /\ w_joined[0] /\ w_joined[1]
    /\ total_iters = 3

\* The controller's positions between the last worker join (line 157) and the
\* release of the Worker array (line 169).
WorkersJoinedPcs ==
    {"join_sampler", "free_thread_history_rows", "free_thread_history",
     "null_thread_history", "free_workers"}

AllocFailedWorkers == {t \in Tids : t < threads /\ w_status[t] = WORKER_ALLOC_FAIL}

CreationFailed == IF failure.kind = "worker" THEN 1 ELSE 0

\* C36: whenever all workers of a run have been joined, the error counter
\* equals the number of workers whose status is ALLOC_FAILED, plus one if a
\* worker thread creation failed in that run (and so is 0 when neither
\* happened).
C36_ErrorsCountFailures ==
    cpc \in WorkersJoinedPcs
        => errors = Cardinality(AllocFailedWorkers) + CreationFailed

\* Worker 0 failed its allocation and the creation of worker 1 failed: two
\* errors once worker 0 has been joined.
C36_Witness ==
    /\ cpc = "join_sampler"
    /\ threads = 2
    /\ w_status[0] = WORKER_ALLOC_FAIL
    /\ w_joined[0]
    /\ failure = Failed("worker", 1)
    /\ errors = 2

\* Worker t's thread is executing worker_main.
Alive(t) == wpc[t] \notin {"none", "done"}

\* The block is live before the step and freed after it.
BlockReleased(p, q) == p = "LIVE" /\ q = "FREED"

\* C35: every buffer and index array a worker allocates is freed exactly once,
\* by that worker, before its thread exits, on the normal exit path and on the
\* index-allocation-failure path alike: a block is released only by a step of
\* its own worker, that step is the worker's return, a returned worker holds
\* no live block, no block is freed twice; and no other thread changes a
\* worker's buffer or index pointer while the worker exists (the controller
\* touches them only by creating and releasing the Worker array, with no
\* worker of that array alive).  A second free of a block would raise the
\* heap-misuse flag.
C35_WorkerOwnsItsBuffers ==
    /\ [][\A t \in Tids :
             /\ (BlockReleased(w_buf[t], w_buf'[t]) \/ BlockReleased(w_idx[t], w_idx'[t]))
                   => (Alive(t) /\ wpc'[t] = "done")
             /\ (w_buf'[t] # w_buf[t] \/ w_idx'[t] # w_idx[t])
                   => \/ Alive(t) /\ wpc'[t] # wpc[t]
                      \/ /\ cpc \in {"alloc_workers", "free_workers"}
                         /\ cpc' # cpc
                         /\ \A u \in Tids : ~Alive(u)]_vars
    /\ [](\A t \in Tids : wpc[t] = "done" => (w_buf[t] # "LIVE" /\ w_idx[t] # "LIVE"))
    /\ [](~fault)

\* Worker 0 has returned on the index-allocation-failure path with its buffer
\* released, and worker 1 has returned from the loop with both blocks
\* released.
C35_Witness ==
    /\ threads = 2
    /\ wpc[0] = "done"
    /\ w_status[0] = WORKER_ALLOC_FAIL
    /\ w_buf[0] = "FREED"
    /\ w_idx[0] = "NULL"
    /\ wpc[1] = "done"
    /\ w_status[1] = WORKER_OK
    /\ w_iters[1] = 1
    /\ w_buf[1] = "FREED"
    /\ w_idx[1] = "FREED"

\* A controller thread is created by this step (ui.c 420).
ControllerCreated == cpc' = "init" /\ cpc # "init"

\* The controller thread exists: created and not yet joined by
\* gui_update_stopped.
ControllerAlive == controller_thread # 0 \/ cpc # "idle"

\* C33: at most one controller thread is alive at any time: from the accepted
\* start until gui_update_stopped has joined the controller the Start button
\* stays insensitive and no second controller thread is created, although the
\* run flag is already 0 during cleanup.
C33_OneController ==
    /\ [][/\ ControllerCreated => (~ControllerAlive /\ btn_start /\ ~btn_start')
          /\ (~btn_start /\ btn_start')
                => (cpc = "done" /\ cpc' = "idle" /\ controller_thread' = 0)]_vars
    /\ [](ControllerAlive => ~btn_start)

\* The controller of the second run is in its cleanup with the run flag
\* already 0 and the Start button still insensitive.
C33_Witness ==
    /\ runs = 2
    /\ cpc = "free_cpu"
    /\ controller_thread # 0
    /\ running = 0
    /\ ~btn_start

(* ---------- the system-history ring and the graph's copy of it ---------- *)

\* A sample is identified by its ordinal number, 1 for the first one written;
\* a slot that was never written holds the 0.0 of calloc (main.c 64-65).

\* main.c 63-65 and the zeroed AppContext: an empty ring of some capacity.
SystemRingInit ==
    /\ EngineInit
    /\ RingIdle /\ ShuffleIdle /\ GeneratorIdle /\ UsageIdle /\ SensorIdle
    /\ \E L \in 1 .. MaxRingLen :
          sysring = [phase |-> "ring", len |-> L, pos |-> 0, filled |-> 0, written |-> 0,
                     temp_history |-> [k \in 0 .. L - 1 |-> 0],
                     temp_data |-> <<>>]

\* metrics.c 71-98: the sampler advances the position, stores the sample in
\* the slot of the new position and counts it.
SR_Write ==
    /\ sysring.phase \in {"ring", "copied"}
    /\ sysring.written < MaxWrites
    /\ LET p == RingAdvance(sysring.pos, sysring.len)
       IN  sysring' = [sysring EXCEPT
                          !.phase = "ring",
                          !.pos = p,
                          !.temp_history = [@ EXCEPT ![p] = sysring.written + 1],
                          !.filled = RingFill(@, sysring.len),
                          !.written = @ + 1]
    /\ UNCHANGED <<engineVars, presVars, ringVars, winVars, peak_held, shuf, gen, usg>>

\* ui.c 784: the slot the copy starts from.
CopyStart(pos, len) == (pos + 1) % len

\* ui.c 774-789: the local copy, system_history_filled entries long.
SystemCopy(r) ==
    [i \in 0 .. r.filled - 1 |-> r.temp_history[(CopyStart(r.pos, r.len) + i) % r.len]]

\* ui.c 752-790 with no sampler write in between: nothing is copied while the
\* ring is empty.
SR_Draw ==
    /\ sysring.phase = "ring"
    /\ sysring.filled # 0
    /\ sysring' = [sysring EXCEPT !.phase = "copied", !.temp_data = SystemCopy(sysring)]
    /\ UNCHANGED <<engineVars, presVars, ringVars, winVars, peak_held, shuf, gen, usg>>

SystemRingNext == SR_Write \/ SR_Draw

\* The system ring and its reader on their own, on every capacity up to
\* MaxRingLen.
SystemRingSpec == SystemRingInit /\ [][SystemRingNext]_vars

\* The n most recently written of w samples, oldest first.
MostRecent(n, w) == [i \in 0 .. n - 1 |-> w - n + 1 + i]

\* C34: the presentation layer's copy of the system-history ring holds exactly
\* the fill-count most recently written samples, oldest first, while the ring
\* is partly filled and after it has wrapped.
C34_CopyIsChronological ==
    sysring.phase = "copied"
        => sysring.temp_data = MostRecent(sysring.filled, sysring.written)

(* ---------- closing the window ---------- *)

\* What the close handlers leave alone apart from the run flag, the
\* controller's handle and position, and the main thread's own state.
closeFrame == <<btn_start, btn_stop, idle_queue, runs, stopped_scheduled, cfgVars, now, errors,
                total_iters, start_time, cpu_count, cpuBufVars, histVars, arrVars,
                sampler_started, workers_started, thread_history_allocated, ci, end_time,
                wFieldVars, wThreadVars, smpVars, fault, runVars, sysVars, sensVars,
                system_history_mutex, draw_fault, stops_ignored, ringVars, pureVars, peak_held>>

\* on_window_delete, ui.c 488-498: with a run active the handler clears the
\* run flag, arms the 100 ms timeout and keeps the window; otherwise it
\* returns FALSE and GTK destroys the window, which runs on_window_destroy.
on_window_delete ==
    /\ dpc = "idle"
    /\ IF running # 0
       THEN /\ running' = 0
            /\ close_timer' = TRUE
            /\ UNCHANGED dpc
       ELSE /\ dpc' = "destroy"
            /\ UNCHANGED <<running, close_timer>>
    /\ UNCHANGED <<closeFrame, controller_thread, cpc, temp_history, avg_cpu_history>>

\* check_if_stopped_and_close, ui.c 472-481: the timeout destroys the window
\* once no controller exists or the run flag is 0; otherwise it stays armed
\* and changes nothing.
check_if_stopped_and_close ==
    /\ dpc = "idle"
    /\ close_timer
    /\ (controller_thread = 0 \/ running = 0)
    /\ close_timer' = FALSE
    /\ dpc' = "destroy"
    /\ UNCHANGED <<closeFrame, running, controller_thread, cpc, temp_history, avg_cpu_history>>

\* on_window_destroy, ui.c 176-178: the run flag is cleared if it is set.
WD_Stop ==
    /\ dpc = "destroy"
    /\ running' = 0
    /\ dpc' = "destroy_join"
    /\ UNCHANGED <<closeFrame, close_timer, controller_thread, cpc, temp_history, avg_cpu_history>>

\* Variant of WD_Join that does not wait for the controller thread.
WD_Join_NoWait ==
    /\ dpc = "destroy_join"
    /\ controller_thread' = 0
    /\ cpc' = IF controller_thread # 0 THEN "idle" ELSE cpc
    /\ temp_history' = Free(temp_history)
    /\ avg_cpu_history' = Free(avg_cpu_history)
    /\ dpc' = "quit"
    /\ UNCHANGED <<closeFrame, running, close_timer>>

\* on_window_destroy, ui.c 185-215: thread_join returns once
\* controller_thread_func has returned; then the system-history buffers and
\* the context are freed and the main loop is left.
WD_Join ==
    /\ dpc = "destroy_join"
    /\ controller_thread # 0 => cpc = "done"
    /\ controller_thread' = 0
    /\ cpc' = IF controller_thread # 0 THEN "idle" ELSE cpc
    /\ temp_history' = Free(temp_history)
    /\ avg_cpu_history' = Free(avg_cpu_history)
    /\ dpc' = "quit"
    /\ UNCHANGED <<closeFrame, running, close_timer>>

on_window_destroy == WD_Stop \/ WD_Join

WindowClose == on_window_delete \/ check_if_stopped_and_close \/ on_window_destroy

\* A start click for a run of one worker.
WindowStart == on_btn_start_clicked /\ threads' = 1

WindowNext ==
    \/ Controller \/ (\E i \in Tids : Worker(i)) \/ Sampler
    \/ WindowStart \/ gui_update_started \/ on_btn_stop_clicked \/ gui_update_stopped
    \/ WindowClose

\* Sessions of up to MaxRuns runs of one worker in which the window may be
\* closed at any time.
WindowSpec == Init /\ [][WindowNext]_vars

\* No controller thread exists: none was created yet or the last one has been
\* joined.
NoRun == cpc = "idle"

\* The controller has made its allocations and is about to create the first
\* thread of the run (core.c 114).
RunBegins == cpc = "create_sampler"

\* The controller's positions after the joins in which it frees (core.c
\* 164-184).
PostJoinCleanup ==
    {"free_thread_history_rows", "free_thread_history", "null_thread_history",
     "free_workers", "null_workers", "free_cpu"}

\* The per-thread and per-core buffers do not exist.
RunBuffersAbsent ==
    /\ thread_history = "NULL"
    /\ \A t \in Tids : thread_history_rows[t] # "LIVE"
    /\ cpu_history = "NULL"
    /\ \A c \in Cpus : cpu_history_rows[c] # "LIVE"

SystemBuffersAbsent == temp_history # "LIVE" /\ avg_cpu_history # "LIVE"
SystemBuffersPresent == temp_history = "LIVE" /\ avg_cpu_history = "LIVE"

\* This step frees a per-thread or per-core history buffer.
FreesRunBuffer ==
    \/ Released(thread_history, thread_history')
    \/ \E t \in Tids : Released(thread_history_rows[t], thread_history_rows'[t])
    \/ Released(cpu_history, cpu_history')
    \/ \E c \in Cpus : Released(cpu_history_rows[c], cpu_history_rows'[c])

\* This step frees a system-history buffer.
FreesSystemBuffer ==
    Released(temp_history, temp_history') \/ Released(avg_cpu_history, avg_cpu_history')

\* The per-thread and per-core rings hold nothing.
RunRingsEmpty ==
    /\ history_pos = 0
    /\ \A t \in Tids : thread_history_data[t] = EmptyRow
    /\ cpu_history_pos = -1
    /\ cpu_history_filled = 0

SystemRingEmpty == system_history_pos = 0 /\ system_history_filled = 0

\* Every History Store buffer of the three families exists only within a
\* run, is freed only in the controller's post-join cleanup, and every run
\* begins with empty rings.
C31_AllBuffersPerRun ==
    /\ [](NoRun => (RunBuffersAbsent /\ SystemBuffersAbsent))
    /\ [][(FreesRunBuffer \/ FreesSystemBuffer)
             => (cpc \in PostJoinCleanup /\ AllStartedJoined)]_vars
    /\ [](RunBegins => (RunRingsEmpty /\ SystemRingEmpty))

\* C31: the per-thread and per-core History Store buffers are allocated at
\* run start and freed only during the controller's post-join cleanup, so each
\* run begins with those rings empty; the system-history buffers exist from
\* program start, are freed only when the window is destroyed, after the
\* controller has been joined, and their ring is never reset, so a later run
\* continues the ring the earlier runs filled.
C31_BuffersByFamily ==
    /\ [](NoRun => RunBuffersAbsent)
    /\ [][FreesRunBuffer => (cpc \in PostJoinCleanup /\ AllStartedJoined)]_vars
    /\ [](RunBegins => RunRingsEmpty)
    /\ [](dpc # "quit" => SystemBuffersPresent)
    /\ [][FreesSystemBuffer
             => (dpc = "destroy_join" /\ cpc \in {"idle", "done"} /\ controller_thread' = 0)]_vars
    /\ [][/\ system_history_filled' >= system_history_filled
          /\ sysVars' # sysVars => (spc = "check" /\ spc' = "hist")]_vars

\* The second run is about to create its threads: its own rings are empty and
\* the system ring still holds the sample of the first run.
C31_Witness ==
    /\ runs = 2
    /\ RunBegins
    /\ thread_history = "LIVE"
    /\ cpu_history = "LIVE"
    /\ RunRingsEmpty
    /\ SystemBuffersPresent
    /\ system_history_filled = 1

(* ---------- stop and close requests, followed to the end of the run ---------- *)

\* on_btn_stop_clicked, ui.c 431: a click on the sensitive Stop button that
\* finds the run flag at 0 returns at once.
on_btn_stop_dropped == on_btn_stop_ignored /\ btn_stop

\* The first start click, for a run of one worker.
CloseStart == FirstStart /\ threads' = 1

CloseNext ==
    \/ Controller \/ (\E i \in Tids : Worker(i)) \/ Sampler
    \/ CloseStart \/ gui_update_started \/ on_btn_stop_clicked \/ on_btn_stop_dropped
    \/ gui_update_stopped \/ WindowClose

\* The GTK main loop runs a pending idle callback or timeout, and a handler
\* that has begun runs to its end.
MainLoopFairness ==
    WF_vars(gui_update_stopped \/ check_if_stopped_and_close \/ on_window_destroy)

\* The first run of a session with stop clicks and close requests at any time,
\* every thread scheduled fairly.
CloseSpec == Init /\ [][CloseNext]_vars /\ Fairness /\ MainLoopFairness

\* A stop click or a close request has been issued since the start was
\* accepted.
StopRequested == stops_ignored > 0 \/ StopEffective
CloseRequested ==
    controller_thread # 0 /\ (close_timer \/ dpc \in {"destroy", "destroy_join"})

\* The run flag is 0 and the controller thread has been joined.
Terminated == running = 0 /\ controller_thread = 0

\* C32: every stop or window-close request issued after a start has been
\* accepted leads to the session terminating (run flag 0 and the controller
\* joined), also when the request arrives after the controller thread was
\* created and before that thread has stored 1 in the run flag.
C32_RequestLeadsToTermination == (StopRequested \/ CloseRequested) ~> Terminated

====
